---- MODULE Spec2Model ----
(***************************************************************************)
(* A model of the ease encoding driver: the scheme expander and the plan  *)
(* runner (internal/encoding/plan.go), the bounded writer (internal/lw),  *)
(* the VMAF measuring tool (internal/vqm) and the metric store            *)
(* (internal/metric).                                                      *)
(*                                                                         *)
(* Strings are sequences of one-character strings, so that the path and   *)
(* template functions are computed character by character as the Go code  *)
(* computes them.                                                          *)
(***************************************************************************)
EXTENDS Integers, Sequences, FiniteSets, TLC

VARIABLES
    \* ---- encoding.Plan and one call of Plan.Run ----
    plan,        \* the Plan: Commands, OutDir, outDirCreated
    runState,    \* "none" | "running" | "returned" | "panicked"
    runs,        \* number of Plan.Run calls made so far
    jobIdx,      \* loop variable i of Plan.Run (1-based)
    result,      \* PlanResult.RunResults of the latest call
    runError,    \* error returned by the latest call
    jobEnv,      \* history: what the environment did to each job of the latest call
    outDirHist,  \* history: the os.MkdirAll calls of ensureOutDir
    \* ---- vqm.FfmpegVMAF ----
    vqt,         \* the tool instance
    vqtHist,     \* history: the last call on the instance and counters
    \* ---- metric.Store and its concurrent callers ----
    store,       \* the Store: records, next
    mu,          \* sync.RWMutex: writer and readers
    pc,          \* position of every caller
    loc,         \* locals of every caller's call in flight
    hist,        \* history of completed calls
    \* ---- vqm.FrameMetrics and the libvmaf report ----
    fmSrc,       \* the FrameMetrics that ToJSON writes
    fmDst,       \* the FrameMetrics that FromJSON and FromFfmpegVMAF fill
    jsonBuf,     \* the bytes that ToJSON wrote
    report,      \* the ffmpegVMAFResult of the latest report decoded
    codec,       \* history: the last call of the codec
    \* ---- Scheme.Expand and NewPlan as functions ----
    expansion,   \* the latest call: its arguments and the jobs it returned
    \* ---- lw.LimitedWriter over a bytes.Buffer ----
    lwr,         \* the writer: N, the bytes in its buffer, and the last Write
    \* ---- App.encode: the encode stage ----
    app          \* the stage: its position, the records and what it reported

planVars  == <<plan, runState, runs, jobIdx, result, runError, jobEnv, outDirHist>>
vqmVars   == <<vqt, vqtHist>>
storeVars == <<store, mu, pc, loc, hist>>
frameVars == <<fmSrc, fmDst, jsonBuf, report, codec>>
expVars   == <<expansion>>
lwVars    == <<lwr>>
appVars   == <<app>>
vars      == <<plan, runState, runs, jobIdx, result, runError, jobEnv, outDirHist,
               vqt, vqtHist, store, mu, pc, loc, hist,
               fmSrc, fmDst, jsonBuf, report, codec, expansion, lwr, app>>

(***************************************************************************)
(* Bounds                                                                  *)
(***************************************************************************)
MaxRuns    == 2     \* Plan.Run calls on one Plan
MaxWrites  == 2     \* Write calls of the stderr copy loop per job
MaxChunk   == 2     \* largest number of bytes in one Write
MaxCalls   == 4     \* calls made on one measuring tool instance
MaxFrames  == 2     \* largest frame count that ffprobe reports
NProcs     == 2     \* concurrent callers of the Store
MaxOps     == 3     \* calls made on one Store
MaxStored  == 2     \* records in the Store before the concurrent Deletes

(***************************************************************************)
(* strings                                                                 *)
(***************************************************************************)
\* s[i..] starts with p
HasPrefixAt(s, p, i) ==
    /\ i + Len(p) - 1 <= Len(s)
    /\ \A k \in 1..Len(p) : s[i + k - 1] = p[k]

RECURSIVE ReplaceFrom(_, _, _, _)
ReplaceFrom(s, old, new, i) ==
    IF i > Len(s) THEN <<>>
    ELSE IF HasPrefixAt(s, old, i)
         THEN new \o ReplaceFrom(s, old, new, i + Len(old))
         ELSE <<s[i]>> \o ReplaceFrom(s, old, new, i + 1)

\* strings.ReplaceAll for a non-empty old
ReplaceAll(s, old, new) == ReplaceFrom(s, old, new, 1)

HasSuffix(s, suf) ==
    /\ Len(suf) <= Len(s)
    /\ SubSeq(s, Len(s) - Len(suf) + 1, Len(s)) = suf

\* strings.TrimSuffix
TrimSuffix(s, suf) ==
    IF HasSuffix(s, suf) THEN SubSeq(s, 1, Len(s) - Len(suf)) ELSE s

\* index of the last occurrence of character c in s, 0 if none
LastIndex(s, c) ==
    IF \E i \in 1..Len(s) : s[i] = c
    THEN CHOOSE i \in 1..Len(s) : s[i] = c /\ \A j \in (i+1)..Len(s) : s[j] # c
    ELSE 0

RECURSIVE StripTrailingSlashes(_)
StripTrailingSlashes(s) ==
    IF Len(s) > 0 /\ s[Len(s)] = "/"
    THEN StripTrailingSlashes(SubSeq(s, 1, Len(s) - 1))
    ELSE s

\* path.Base
PathBase(p) ==
    IF p = <<>> THEN <<".">>
    ELSE LET q == StripTrailingSlashes(p)
             r == SubSeq(q, LastIndex(q, "/") + 1, Len(q))
         IN  IF r = <<>> THEN <<"/">> ELSE r

\* filepath.Ext: the suffix beginning at the final dot in the final element
FilepathExt(p) ==
    LET slash == LastIndex(p, "/")
        dot   == LastIndex(p, ".")
    IN  IF dot > slash THEN SubSeq(p, dot, Len(p)) ELSE <<>>

\* path.Join of two elements; the joined elements of this model hold no
\* ".", ".." or doubled separators, on which path.Clean changes nothing more
\* than a trailing separator.
PathJoin(a, b) ==
    IF a = <<>> THEN StripTrailingSlashes(b)
    ELSE IF b = <<>> THEN StripTrailingSlashes(a)
    ELSE StripTrailingSlashes(StripTrailingSlashes(a) \o <<"/">> \o b)

WordChars ==
    {"a","b","c","d","e","f","g","h","i","j","k","l","m","n","o","p","q","r",
     "s","t","u","v","w","x","y","z",
     "A","B","C","D","E","F","G","H","I","J","K","L","M","N","O","P","Q","R",
     "S","T","U","V","W","X","Y","Z",
     "0","1","2","3","4","5","6","7","8","9","_"}

inputPlaceholder   == <<"%","I","N","P","U","T","%">>
outputPlaceholder  == <<"%","O","U","T","P","U","T","%">>
logFilePlaceholder == <<"%","L","O","G","F","I","L","E","%">>

\* first index at which p occurs in s, 0 if it does not
IndexOf(s, p) ==
    IF \E i \in 1..Len(s) : HasPrefixAt(s, p, i)
    THEN CHOOSE i \in 1..Len(s) :
            HasPrefixAt(s, p, i) /\ \A j \in 1..(i-1) : ~HasPrefixAt(s, p, j)
    ELSE 0

\* end (exclusive) of the longest run of word characters starting at i
RECURSIVE WordEnd(_, _)
WordEnd(s, i) ==
    IF i <= Len(s) /\ s[i] \in WordChars THEN WordEnd(s, i + 1) ELSE i

\* The capture group of `%OUTPUT%(\.\w+)*` starting its iterations at i:
\* every iteration overwrites the group, the last iteration is what remains.
RECURSIVE LastExtGroup(_, _, _)
LastExtGroup(s, i, last) ==
    IF i <= Len(s) /\ s[i] = "." /\ WordEnd(s, i + 1) > i + 1
    THEN LastExtGroup(s, WordEnd(s, i + 1), SubSeq(s, i, WordEnd(s, i + 1) - 1))
    ELSE last

\* m[1] of extMatcher.FindStringSubmatch(CommandTpl), "" when there is no match
CompressedFileExt(tpl) ==
    LET at == IndexOf(tpl, outputPlaceholder)
    IN  IF at = 0 THEN <<>>
        ELSE LastExtGroup(tpl, at + Len(outputPlaceholder), <<>>)

(***************************************************************************)
(* Scheme expansion: plan.go, Scheme.Expand and NewPlan                    *)
(***************************************************************************)
\* normalize of generateOutputFileNameBase: no spaces
normalize(input) == ReplaceAll(input, <<" ">>, <<"_">>)

generateOutputFileNameBase(inputFile, outDir, postfix) ==
    LET baseName == PathBase(inputFile)
        trimmed  == TrimSuffix(baseName, FilepathExt(baseName))
    IN  PathJoin(outDir, normalize(trimmed) \o <<"_">> \o normalize(postfix))

\* the EncoderCmd that one iteration of Expand's loop builds for sFile
ExpandOne(scheme, sFile, outDir, cwd) ==
    LET oFileBase == generateOutputFileNameBase(sFile, outDir, scheme.Name)
        logFile   == oFileBase \o <<".","l","o","g">>
        cmd1      == ReplaceAll(scheme.CommandTpl, inputPlaceholder, sFile)
        cmd2      == ReplaceAll(cmd1, outputPlaceholder, oFileBase)
        cmdStr    == ReplaceAll(cmd2, logFilePlaceholder, logFile)
    IN  [Name           |-> scheme.Name,
         SourceFile     |-> sFile,
         CompressedFile |-> oFileBase \o CompressedFileExt(scheme.CommandTpl),
         OutputFile     |-> oFileBase \o <<".","o","u","t">>,
         LogFile        |-> logFile,
         WorkDir        |-> cwd.dir,
         Cmd            |-> cmdStr]

\* Scheme.Expand: one command per source file, in order; an iteration whose
\* os.Getwd fails is skipped.
RECURSIVE Expand(_, _, _, _)
Expand(scheme, sourceFiles, outDir, cwd) ==
    IF sourceFiles = <<>> THEN <<>>
    ELSE (IF cwd.ok THEN <<ExpandOne(scheme, Head(sourceFiles), outDir, cwd)>>
                    ELSE <<>>)
         \o Expand(scheme, Tail(sourceFiles), outDir, cwd)

\* a loop that appends the jobs of a scheme in front of those it has
RECURSIVE ExpandAllReversed(_, _, _, _)
ExpandAllReversed(schemes, inputs, outDir, cwd) ==
    IF schemes = <<>> THEN <<>>
    ELSE ExpandAllReversed(Tail(schemes), inputs, outDir, cwd)
         \o Expand(Head(schemes), inputs, outDir, cwd)

\* the loop of NewPlan: the jobs of every scheme, appended in scheme order
RECURSIVE ExpandAll(_, _, _, _)
ExpandAll(schemes, inputs, outDir, cwd) ==
    IF schemes = <<>> THEN <<>>
    ELSE Expand(Head(schemes), inputs, outDir, cwd)
         \o ExpandAll(Tail(schemes), inputs, outDir, cwd)

NewPlan(pcfg, outDir, cwd) ==
    [Inputs        |-> pcfg.Inputs,
     Schemes       |-> pcfg.Schemes,
     Commands      |-> ExpandAll(pcfg.Schemes, pcfg.Inputs, outDir, cwd),
     OutDir        |-> outDir,
     outDirCreated |-> FALSE]

(***************************************************************************)
(* The plan configurations of the model                                    *)
(***************************************************************************)
SchemeList ==
    << [Name       |-> <<"e"," ","1">>,
        CommandTpl |-> <<"c"," ">> \o inputPlaceholder \o <<" ">>
                       \o outputPlaceholder \o <<".","m","4">>],
       [Name       |-> <<"z">>,
        CommandTpl |-> <<"t"," ">> \o inputPlaceholder \o <<" ">>
                       \o outputPlaceholder \o <<".","t",".","g"," ">>
                       \o logFilePlaceholder] >>

InputList == << <<"a",".","m">>, <<"d","/","b"," ","c",".","m">>, <<"v">> >>

OutDirPool == { <<"o">> }

\* os.Getwd at expansion time: the working directory, or an error
CwdOutcomes == { [ok |-> TRUE, dir |-> <<"/","w">>], [ok |-> FALSE, dir |-> <<>>] }

SeqsUpTo(S, n) == UNION { [1..k -> S] : k \in 0..n }

\* <<number of schemes, number of inputs>> of the plans that are run
PlanShapes == { <<0, 0>>, <<0, 2>>, <<1, 1>>, <<2, 1>>, <<1, 2>>, <<1, 3>> }

PlanConfigs ==
    { [Schemes |-> SubSeq(SchemeList, 1, sh[1]), Inputs |-> SubSeq(InputList, 1, sh[2])] :
        sh \in PlanShapes }

(***************************************************************************)
(* lw.LimitedWriter                                                        *)
(***************************************************************************)
ErrNil                   == "nil"
ErrLimitedWriterOverflow == "LimitedWriter overflow"

\* a Write that refuses what would fill the writer exactly
LimitedWriterWriteBelow(N, b) ==
    IF b >= N
    THEN [n |-> 0, err |-> ErrLimitedWriterOverflow, N |-> N]
    ELSE [n |-> b, err |-> ErrNil, N |-> N - b]

\* LimitedWriter.Write of b bytes on a writer with N bytes left, over a
\* bytes.Buffer (which accepts every write in full).
LimitedWriterWrite(N, b) ==
    IF b > N
    THEN [n |-> 0, err |-> ErrLimitedWriterOverflow, N |-> N]
    ELSE [n |-> b, err |-> ErrNil, N |-> N - b]

MaxLimit   == 3     \* largest limit a LimitedWriter is created with
MaxLWCalls == 3     \* Write calls made on one LimitedWriter

NoWrite == [b |-> 0, n |-> 0, err |-> ErrNil, NBefore |-> 0, bufBefore |-> 0]

\* LimitWriter(&buf, n): buf counts the bytes that reached the bytes.Buffer
LimitWriter(n) == [limit |-> n, N |-> n, buf |-> 0, calls |-> 0, last |-> NoWrite]

LwInit == \E n \in 0..MaxLimit : lwr = LimitWriter(n)
LwIdle == lwr = LimitWriter(0)

\* one call w.Write(b) with len(b) = b
LwWrite(b) ==
    LET done(w) ==
            lwr' = [lwr EXCEPT !.N = w.N, !.buf = @ + w.n, !.calls = @ + 1,
                               !.last = [b |-> b, n |-> w.n, err |-> w.err,
                                         NBefore |-> lwr.N, bufBefore |-> lwr.buf]]
    IN  /\ lwr.calls < MaxLWCalls
        /\ done(LimitedWriterWrite(lwr.N, b))
        /\ UNCHANGED <<planVars, vqmVars, storeVars, frameVars, expVars, appVars>>

(***************************************************************************)
(* One job: plan.go, EncoderCmd.Run                                        *)
(***************************************************************************)
\* the in-memory cap of the stderr buffer (5 MiB in plan.go), scaled down
outputBufferSize == 1

ErrCreate   == "open: cannot create output file"
ErrExit     == "exit status"
ErrProbe    == "FfprobeExtractMetadata()"
ErrPlanRun  == "Plan run executed with errors"
ErrOutDir   == "ensureOutDir()"

ExitSIGPIPE == 141

\* What the environment does to one job.
\*   createOK : os.Create(OutputFile) succeeds
\*   startOK  : sh is found and forked
\*   writes   : the sizes of the Write calls the stderr copy would make if
\*              nothing stopped it
\*   exit     : the exit code of the subprocess when its stderr stays open
\*   sigpipe  : the subprocess dies of SIGPIPE when it writes to the closed pipe
\*   elapsed  : wall time of the run
\*   probe    : <<>> when ffprobe fails, <<duration>> otherwise
WriteSeqs == SeqsUpTo(1..MaxChunk, MaxWrites)
\* the subprocess ran; it could not be started; its output file could not be
\* created (what would have followed does not happen)
RanEnvs ==
    [createOK : {TRUE}, startOK : {TRUE}, writes : WriteSeqs,
     exit : {0, 1}, sigpipe : BOOLEAN, elapsed : {1}, probe : {<<>>, <<1>>}]
NotStartedEnvs ==
    [createOK : BOOLEAN, startOK : {FALSE}, writes : {<<>>},
     exit : {0}, sigpipe : {FALSE}, elapsed : {1}, probe : {<<>>}]
JobEnvs == RanEnvs \cup NotStartedEnvs

RECURSIVE SumSeq(_)
SumSeq(q) == IF q = <<>> THEN 0 ELSE Head(q) + SumSeq(Tail(q))

\* a RunResult that does not take the command's fields
InitRunResultBlank(cmd) ==
    [EncoderCmd       |-> [Name |-> <<>>, SourceFile |-> <<>>, CompressedFile |-> <<>>,
                           OutputFile |-> <<>>, LogFile |-> <<>>, WorkDir |-> <<>>,
                           Cmd |-> <<>>],
     Errors           |-> <<>>,
     cmd              |-> "nil",
     ProcessState     |-> <<>>,
     stderr           |-> 0,
     Stats            |-> <<>>,
     VideoDuration    |-> 0,
     AvgEncodingSpeed |-> <<>>]

\* RunResult{EncoderCmd: *s}
InitRunResult(cmd) ==
    [EncoderCmd       |-> cmd,
     Errors           |-> <<>>,
     cmd              |-> "nil",
     ProcessState     |-> <<>>,
     stderr           |-> 0,
     Stats            |-> <<>>,
     VideoDuration    |-> 0,
     AvgEncodingSpeed |-> <<>>]

ZeroEncoderCmd ==
    [Name |-> <<>>, SourceFile |-> <<>>, CompressedFile |-> <<>>,
     OutputFile |-> <<>>, LogFile |-> <<>>, WorkDir |-> <<>>, Cmd |-> <<>>]

\* the zero RunResult that make([]RunResult, n) holds
ZeroRunResult == InitRunResult(ZeroEncoderCmd)

\* RunResult.AddError
AddError(r, e) == [r EXCEPT !.Errors = Append(@, e)]

\* The copy of the subprocess's stderr into io.MultiWriter(memWriter, f):
\* io.Copy stops at the first Write that returns an error.  k is the next
\* write, N what is left of the cap, buffered the bytes in buf so far.
RECURSIVE CopyLoop(_, _, _, _)
CopyLoop(writes, k, N, buffered) ==
    IF k > Len(writes)
    THEN [err |-> ErrNil, stoppedAt |-> 0, buffered |-> buffered]
    ELSE LET w == LimitedWriterWrite(N, writes[k])
         IN  IF w.err # ErrNil
             THEN [err |-> w.err, stoppedAt |-> k, buffered |-> buffered]
             ELSE CopyLoop(writes, k + 1, w.N, buffered + w.n)

\* The exit code of the subprocess: when the copy stopped before the last
\* write, the read end of the pipe is closed and the next write of the
\* subprocess raises SIGPIPE.
ActualExit(env, copy) ==
    IF copy.stoppedAt # 0 /\ copy.stoppedAt < Len(env.writes) /\ env.sigpipe
    THEN ExitSIGPIPE
    ELSE env.exit

\* a Wait that drops the error of the copying goroutine
CmdRunErrExitOnly(exitCode, copyErr) ==
    IF exitCode # 0 THEN "exit status" ELSE "nil"

\* exec.Cmd.Wait: an *ExitError for a non-zero exit; the error of the copying
\* goroutine only if the program otherwise exited normally.
CmdRunErr(exitCode, copyErr) ==
    IF exitCode # 0 THEN ErrExit ELSE copyErr

\* EncoderCmd.Run panics when the subprocess was not started: r.Rusage()
\* calls SysUsage() on the nil r.cmd.ProcessState.
RunPanics(env) == env.createOK /\ ~env.startOK

\* EncoderCmd.Run when it returns
EncoderCmdRun(cmd, env) ==
    LET r0 == InitRunResult(cmd)
    IN  IF ~env.createOK THEN AddError(r0, ErrCreate)
        ELSE
        LET copy   == CopyLoop(env.writes, 1, outputBufferSize, 0)
            exit   == ActualExit(env, copy)
            err    == CmdRunErr(exit, copy.err)
            r1     == [r0 EXCEPT !.cmd = "set", !.ProcessState = <<exit>>]
            r2     == IF err # ErrNil THEN AddError(r1, err) ELSE r1
            r3     == [r2 EXCEPT !.Stats = <<env.elapsed>>]
            r4     == IF env.probe = <<>>
                      THEN AddError(r3, ErrProbe)
                      ELSE [r3 EXCEPT !.VideoDuration = env.probe[1],
                                      !.AvgEncodingSpeed = <<env.probe[1], env.elapsed>>]
        IN  [r4 EXCEPT !.stderr = copy.buffered]

(***************************************************************************)
(* plan.go, Plan.Run and Plan.ensureOutDir                                 *)
(***************************************************************************)
NJobs == Len(plan.Commands)

\* the part of a job's environment that the history keeps
NoEnv == [attempted |-> FALSE, createOK |-> FALSE, startOK |-> FALSE,
          overCap |-> FALSE, exit |-> 0, probeOK |-> FALSE]
EnvNote(env) ==
    [attempted |-> TRUE, createOK |-> env.createOK, startOK |-> env.startOK,
     overCap |-> SumSeq(env.writes) > outputBufferSize,
     exit |-> env.exit, probeOK |-> env.probe # <<>>]

\* an aggregation that looks at the last result only
AggregateRunErrorLast(results) ==
    IF Len(results) > 0 /\ Len(results[Len(results)].Errors) # 0
    THEN ErrPlanRun ELSE ErrNil

\* the aggregation loop at the end of Plan.Run
AggregateRunError(results) ==
    IF \E i \in 1..Len(results) : Len(results[i].Errors) # 0
    THEN ErrPlanRun ELSE ErrNil

\* an ensureOutDir that does not look at the flag
ensureOutDirEveryRun(p, mkdirOK) ==
    IF mkdirOK
    THEN [plan |-> [p EXCEPT !.outDirCreated = TRUE], err |-> ErrNil, mkdir |-> "ok"]
    ELSE [plan |-> p, err |-> ErrOutDir, mkdir |-> "failed"]

\* Plan.ensureOutDir: nothing to do when the flag is set; otherwise
\* os.MkdirAll is called and the flag is set when it succeeds.  mkdir tells
\* what became of the os.MkdirAll call: "none" (not called), "ok", "failed".
ensureOutDir(p, mkdirOK) ==
    IF p.outDirCreated THEN [plan |-> p, err |-> ErrNil, mkdir |-> "none"]
    ELSE IF mkdirOK
    THEN [plan |-> [p EXCEPT !.outDirCreated = TRUE], err |-> ErrNil, mkdir |-> "ok"]
    ELSE [plan |-> p, err |-> ErrOutDir, mkdir |-> "failed"]

NoMkdir == [tried |-> 0, made |-> 0, last |-> "none", run |-> 0]

\* Plan.Run up to its loop: the result list is allocated, then ensureOutDir
\* either finds the flag set, creates the directory, or fails and Run returns.
RunBegin(mkdirOK) ==
    LET ensured(e) ==
            /\ plan' = e.plan
            /\ runState' = IF e.err = ErrNil THEN "running" ELSE "returned"
            /\ runError' = e.err
            /\ outDirHist' = [tried |-> outDirHist.tried + (IF e.mkdir = "none" THEN 0 ELSE 1),
                              made  |-> outDirHist.made + (IF e.mkdir = "ok" THEN 1 ELSE 0),
                              last  |-> e.mkdir,
                              run   |-> runs + 1]
    IN  /\ runState \in {"none", "returned"}
        /\ runs < MaxRuns
        /\ runs' = runs + 1
        /\ result' = [i \in 1..NJobs |-> ZeroRunResult]
        /\ jobEnv' = [i \in 1..NJobs |-> NoEnv]
        /\ jobIdx' = 1
        /\ ensured(ensureOutDir(plan, mkdirOK))
    /\ UNCHANGED <<vqmVars, storeVars, frameVars, expVars, lwVars, appVars>>

\* one iteration of the loop: result.RunResults[i] = s.Commands[i].Run()
RunJob(env) ==
    /\ runState = "running"
    /\ jobIdx <= NJobs
    /\ jobEnv' = [jobEnv EXCEPT ![jobIdx] = EnvNote(env)]
    /\ IF RunPanics(env)
       THEN /\ runState' = "panicked"
            /\ UNCHANGED <<result, jobIdx>>
       ELSE /\ result' = [result EXCEPT ![jobIdx] = EncoderCmdRun(plan.Commands[jobIdx], env)]
            /\ jobIdx' = jobIdx + 1
            /\ runState' = runState
    /\ UNCHANGED <<plan, runs, runError, outDirHist, vqmVars, storeVars, frameVars, expVars, lwVars, appVars>>

\* the loop is over: aggregate and return
RunEnd ==
    /\ runState = "running"
    /\ jobIdx > NJobs
    /\ runError' = AggregateRunError(result)
    /\ runState' = "returned"
    /\ UNCHANGED <<plan, runs, jobIdx, result, jobEnv, outDirHist, vqmVars, storeVars, frameVars, expVars, lwVars, appVars>>

(***************************************************************************)
(* The measuring tool: vqm.FfmpegVMAF (Measure, GetMetrics) and its        *)
(* predecessor vqm.ffmpegVMAF (Measure, GetResult)                         *)
(***************************************************************************)
ErrAlreadyExecuted   == "Measure() already executed"
ErrGetMetricsDepends == "GetMetrics() depends on Measure() called first"
ErrGetResultDepends  == "GetResult() depends on Measure() called first"
ErrSourceMeta        == "source file metadata"
ErrCompressedMeta    == "compressed file metadata"
ErrFrameMismatch     == "frame count mismatch"
ErrVQMCalculation    == "VQM calculation error"
ErrOpeningFile       == "opening file"
ErrParsingJSON       == "parsing JSON"
ErrReadingFile       == "VideoQualityTool.GetResult() reading"
ErrResultParser      == "VideoQualityTool.GetResult() in resultParser()"

Impls == {"FfmpegVMAF", "ffmpegVMAF"}

\* NewFfmpegVMAF
NewFfmpegVMAF(impl) ==
    [impl |-> impl, measured |-> FALSE, output |-> "empty", crashed |-> FALSE]

\* What the environment does to one Measure call: the two metadata probes
\* (<<>> for a failure, <<frame count>> otherwise) and the external tool.
ProbeOutcomes == {<<>>} \cup { <<n>> : n \in 1..MaxFrames }
MeasureEnvs == [src : ProbeOutcomes, comp : ProbeOutcomes, toolOK : BOOLEAN]

NoMeasureEnv == [src |-> <<>>, comp |-> <<>>, toolOK |-> FALSE]

\* a validation that probes both files and does not compare the frame counts
PreflightErrProbesOnly(impl, env) ==
    IF impl = "ffmpegVMAF" THEN ErrNil
    ELSE IF env.src = <<>> THEN ErrSourceMeta
    ELSE IF env.comp = <<>> THEN ErrCompressedMeta
    ELSE ErrNil

\* the frame count validation that FfmpegVMAF.Measure does before the tool
\* runs; ffmpegVMAF.Measure has none
PreflightErr(impl, env) ==
    IF impl = "ffmpegVMAF" THEN ErrNil
    ELSE IF env.src = <<>> THEN ErrSourceMeta
    ELSE IF env.comp = <<>> THEN ErrCompressedMeta
    ELSE IF env.src[1] # env.comp[1] THEN ErrFrameMismatch
    ELSE ErrNil

\* a Measure that never sets the flag
MeasuredAfterNever(toolOK) == FALSE

\* f.measured = true is reached only when CombinedOutput returned no error
MeasuredAfter(toolOK) == toolOK

\* a guard that lets Measure run again on a measured instance
AlreadyExecutedNever(f) == FALSE

\* the first check of Measure: the instance has been measured
AlreadyExecuted(f) == f.measured

\* Measure as a function of the instance and the environment: the error it
\* returns, whether the external tool was executed, and the instance after.
MeasureOutcome(f, env) ==
    IF AlreadyExecuted(f)
    THEN [err |-> ErrAlreadyExecuted, ran |-> FALSE, f |-> f]
    ELSE IF PreflightErr(f.impl, env) # ErrNil
    THEN [err |-> PreflightErr(f.impl, env), ran |-> FALSE, f |-> f]
    ELSE [err |-> IF env.toolOK THEN ErrNil ELSE ErrVQMCalculation,
          ran |-> TRUE,
          f   |-> [f EXCEPT !.output = "tool output",
                            !.measured = MeasuredAfter(env.toolOK)]]

\* a guard that looks at the captured output instead of the flag
AccessorRefusesOnOutput(f) == f.output = "empty"

\* the guard of the result accessors
AccessorRefuses(f) == ~f.measured

ErrZeroLength == "panic: floats: zero slice length"

\* What the accessor finds: the result file cannot be opened, cannot be
\* decoded, decodes to a report without frames, or to a report with frames.
ResultFiles == {"missing", "malformed", "no frames", "report"}

\* GetMetrics / GetResult: the error returned and whether the result file was
\* opened.
AccessorOutcome(f, file) ==
    IF AccessorRefuses(f)
    THEN [err    |-> IF f.impl = "FfmpegVMAF" THEN ErrGetMetricsDepends
                                              ELSE ErrGetResultDepends,
          opened |-> FALSE]
    ELSE [err    |-> CASE file = "missing" ->
                            IF f.impl = "FfmpegVMAF" THEN ErrOpeningFile ELSE ErrReadingFile
                       [] file = "malformed" ->
                            IF f.impl = "FfmpegVMAF" THEN ErrParsingJSON ELSE ErrResultParser
                       [] file = "no frames" ->
                            \* floats.Min panics on the empty sample vector;
                            \* GetResult reads the pooled means only
                            IF f.impl = "FfmpegVMAF" THEN ErrZeroLength ELSE ErrNil
                       [] OTHER -> ErrNil,
          opened |-> TRUE]

VqmInit ==
    /\ vqt \in { NewFfmpegVMAF(impl) : impl \in Impls }
    /\ vqtHist = [calls |-> 0, okMeasures |-> 0, measureCalls |-> 0, toolRuns |-> 0,
                  opens |-> 0, lastOp |-> "none", lastErr |-> ErrNil,
                  okBefore |-> 0, opensBefore |-> 0,
                  toolRunsBefore |-> 0, env |-> NoMeasureEnv]

Measure(env) ==
    /\ vqtHist.calls < MaxCalls
    /\ ~vqt.crashed
    /\ LET o == MeasureOutcome(vqt, env)
       IN  /\ vqt' = o.f
           /\ vqtHist' = [vqtHist EXCEPT
                  !.calls = @ + 1,
                  !.measureCalls = @ + 1,
                  !.toolRuns = IF o.ran THEN @ + 1 ELSE @,
                  !.okMeasures = IF o.err = ErrNil THEN @ + 1 ELSE @,
                  !.lastOp = "Measure",
                  !.lastErr = o.err,
                  !.okBefore = vqtHist.okMeasures,
                  !.opensBefore = vqtHist.opens,
                  !.toolRunsBefore = vqtHist.toolRuns,
                  !.env = env]
    /\ UNCHANGED <<planVars, storeVars, frameVars, expVars, lwVars, appVars>>

\* GetMetrics on FfmpegVMAF, GetResult on ffmpegVMAF
GetMetrics(file) ==
    /\ vqtHist.calls < MaxCalls
    /\ ~vqt.crashed
    /\ LET o == AccessorOutcome(vqt, file)
       IN  /\ vqt' = [vqt EXCEPT !.crashed = (o.err = ErrZeroLength)]
           /\ vqtHist' = [vqtHist EXCEPT
                  !.calls = @ + 1,
                  !.opens = IF o.opened THEN @ + 1 ELSE @,
                  !.lastOp = "GetMetrics",
                  !.lastErr = o.err,
                  !.okBefore = vqtHist.okMeasures,
                  !.opensBefore = vqtHist.opens,
                  !.toolRunsBefore = vqtHist.toolRuns]
    /\ UNCHANGED <<planVars, storeVars, frameVars, expVars, lwVars, appVars>>

(***************************************************************************)
(* metric.Store                                                            *)
(***************************************************************************)
ErrRecordNotFound == "record not found"

Procs == 1..NProcs

\* A Record is modelled by two of its fields; callers pass records whose
\* fields agree, so that a torn copy is recognisable.
RecordPool == { [a |-> v, b |-> v] : v \in {1, 2} }
ZeroRecord == [a |-> 0, b |-> 0]

\* NewStore
NewStore == [records |-> <<>>, next |-> 0]

Live(st) == DOMAIN st.records

\* a lookup that reports every id as present
MapGetAlwaysOk(recs, id) ==
    [r  |-> IF id \in DOMAIN recs THEN recs[id] ELSE ZeroRecord,
     ok |-> TRUE]

\* r, ok := s.records[id]: the record and true, or the zero Record and false
MapGet(recs, id) ==
    [r  |-> IF id \in DOMAIN recs THEN recs[id] ELSE ZeroRecord,
     ok |-> id \in DOMAIN recs]

\* a Lock that does not wait
LockFreeAlways(m) == TRUE

\* sync.RWMutex: Lock waits for the writer and all readers to leave, RLock
\* for the writer.
LockFree(m)  == m.w = 0 /\ m.r = {}
RLockFree(m) == m.w = 0

\* an assignment that finds or creates the slot and leaves its first field alone
StoreFirstHalfZero(recs, id, r) ==
    IF id \in DOMAIN recs
    THEN recs
    ELSE [k \in DOMAIN recs \cup {id} |-> IF k = id THEN ZeroRecord ELSE recs[k]]

\* s.records[id] = r is a map assignment: the slot is found or created
\* (zeroed), then the record is copied into it field by field.
StoreFirstHalf(recs, id, r) ==
    IF id \in DOMAIN recs
    THEN [recs EXCEPT ![id].a = r.a]
    ELSE [k \in DOMAIN recs \cup {id} |->
            IF k = id THEN [ZeroRecord EXCEPT !.a = r.a] ELSE recs[k]]
\* a copy that stops after the first field
StoreSecondHalfSkipped(recs, id, r) == recs
StoreSecondHalf(recs, id, r) == [recs EXCEPT ![id].b = r.b]

\* an Insert that forgets the increment
NextAfterSame(st) == st.next

\* s.next++
NextAfter(st) == st.next + 1

\* a Delete that leaves the record in place
DeleteRecordKept(recs, id) == recs

\* delete(s.records, id)
DeleteRecord(recs, id) == [k \in DOMAIN recs \ {id} |-> recs[k]]

\* the ids that GetIDs collects
GetIDsOf(st) == DOMAIN st.records

NoCall == [op |-> "none", id |-> 0, rec |-> ZeroRecord, out |-> <<>>,
           err |-> ErrNil, live |-> FALSE, snap |-> NewStore]

Writers == {"Insert", "Update", "Delete"}
Readers == {"Get", "Exists", "GetIDs"}

InFlight == { p \in Procs : pc[p] # "idle" }

\* the arguments each method takes
IdArgs(op)  == IF op \in {"Insert", "GetIDs"} THEN {0} ELSE {0, 1}
RecArgs(op) == IF op \in {"Insert", "Update"} THEN RecordPool ELSE {ZeroRecord}

\* the history of a Store on which nothing was called
NoHist == [calls |-> 0, insLog |-> <<>>, deleted |-> {}, nDel |-> 0,
           updLog |-> {}, ops |-> {}, maxConc |-> 0, updConc |-> FALSE,
           ref |-> <<>>, delLog |-> {}, delConc |-> FALSE]

StoreInit ==
    /\ store = NewStore
    /\ mu = [w |-> 0, r |-> {}]
    /\ pc = [p \in Procs |-> "idle"]
    /\ loc = [p \in Procs |-> NoCall]
    /\ hist = NoHist

\* The Store after the records of recs were inserted one after the other and
\* every Insert returned; calls counts the calls made from then on.
StoreAfterInserts(recs) ==
    /\ store = [records |-> [id \in 0..(Len(recs) - 1) |-> recs[id + 1]],
                next    |-> Len(recs)]
    /\ mu = [w |-> 0, r |-> {}]
    /\ pc = [p \in Procs |-> "idle"]
    /\ loc = [p \in Procs |-> NoCall]
    /\ hist = [NoHist EXCEPT
                 !.insLog = [i \in 1..Len(recs) |-> [id |-> i - 1, rec |-> recs[i], dels |-> 0]],
                 !.ops = {"Insert"},
                 !.maxConc = 1,
                 !.ref = [id \in 0..(Len(recs) - 1) |-> recs[id + 1]]]

\* a caller enters one of the Store's methods
Call(p, op, id, rec) ==
    /\ pc[p] = "idle"
    /\ hist.calls < MaxOps
    /\ pc' = [pc EXCEPT ![p] = IF op \in Writers THEN "lock" ELSE "rlock"]
    /\ loc' = [loc EXCEPT ![p] = [NoCall EXCEPT !.op = op, !.id = id, !.rec = rec,
                                                !.live = id \in Live(store)]]
    /\ hist' = [hist EXCEPT !.calls = @ + 1,
                            !.ops = @ \cup {op},
                            !.maxConc = IF Cardinality(InFlight) + 1 > @
                                        THEN Cardinality(InFlight) + 1 ELSE @,
                            !.updConc = @ \/ (op = "Update" /\ \E q \in InFlight :
                                                loc[q].op = "Update" /\ loc[q].id = id),
                            !.delConc = @ \/ (op = "Delete" /\ id \in Live(store)
                                              /\ \E q \in InFlight :
                                                    loc[q].op = "Delete" /\ loc[q].id = id)]
    /\ UNCHANGED <<store, mu, planVars, vqmVars, frameVars, expVars, lwVars, appVars>>

\* a Lock that returns without holding the mutex
LockedByNobody(m, p) == m

\* the mutex once Lock has returned to p
LockedBy(m, p) == [m EXCEPT !.w = p]

\* s.mu.Lock()
Lock(p) ==
    /\ pc[p] = "lock"
    /\ LockFree(mu)
    /\ mu' = LockedBy(mu, p)
    /\ pc' = [pc EXCEPT ![p] = CASE loc[p].op = "Insert" -> "ins_store1"
                                 [] loc[p].op = "Update" -> "upd_check"
                                 [] OTHER                -> "del_check"]
    /\ loc' = [loc EXCEPT ![p].snap = store]
    /\ UNCHANGED <<store, hist, planVars, vqmVars, frameVars, expVars, lwVars, appVars>>

\* s.mu.RLock()
RLock(p) ==
    /\ pc[p] = "rlock"
    /\ RLockFree(mu)
    /\ mu' = [mu EXCEPT !.r = @ \cup {p}]
    /\ pc' = [pc EXCEPT ![p] = "read"]
    /\ loc' = [loc EXCEPT ![p].snap = store]
    /\ UNCHANGED <<store, hist, planVars, vqmVars, frameVars, expVars, lwVars, appVars>>

\* Insert: s.records[s.next] = r
InsertStore1(p) ==
    /\ pc[p] = "ins_store1"
    /\ store' = [store EXCEPT !.records = StoreFirstHalf(@, store.next, loc[p].rec)]
    /\ pc' = [pc EXCEPT ![p] = "ins_store2"]
    /\ loc' = [loc EXCEPT ![p].id = store.next]
    /\ UNCHANGED <<mu, hist, planVars, vqmVars, frameVars, expVars, lwVars, appVars>>

InsertStore2(p) ==
    /\ pc[p] = "ins_store2"
    /\ store' = [store EXCEPT !.records = StoreSecondHalf(@, loc[p].id, loc[p].rec)]
    /\ pc' = [pc EXCEPT ![p] = "ins_id"]
    /\ UNCHANGED <<mu, loc, hist, planVars, vqmVars, frameVars, expVars, lwVars, appVars>>

\* Insert: id := s.next
InsertID(p) ==
    /\ pc[p] = "ins_id"
    /\ loc' = [loc EXCEPT ![p].out = <<store.next>>]
    /\ pc' = [pc EXCEPT ![p] = "ins_incr"]
    /\ UNCHANGED <<store, mu, hist, planVars, vqmVars, frameVars, expVars, lwVars, appVars>>

\* Insert: s.next++
InsertIncr(p) ==
    /\ pc[p] = "ins_incr"
    /\ store' = [store EXCEPT !.next = NextAfter(store)]
    /\ pc' = [pc EXCEPT ![p] = "unlock"]
    /\ UNCHANGED <<mu, loc, hist, planVars, vqmVars, frameVars, expVars, lwVars, appVars>>

\* Update: the existence check
UpdateCheck(p) ==
    /\ pc[p] = "upd_check"
    /\ IF MapGet(store.records, loc[p].id).ok
       THEN /\ pc' = [pc EXCEPT ![p] = "upd_store1"]
            /\ loc' = loc
       ELSE /\ pc' = [pc EXCEPT ![p] = "unlock"]
            /\ loc' = [loc EXCEPT ![p].err = ErrRecordNotFound]
    /\ UNCHANGED <<store, mu, hist, planVars, vqmVars, frameVars, expVars, lwVars, appVars>>

\* Update: s.records[id] = r
UpdateStore1(p) ==
    /\ pc[p] = "upd_store1"
    /\ store' = [store EXCEPT !.records = StoreFirstHalf(@, loc[p].id, loc[p].rec)]
    /\ pc' = [pc EXCEPT ![p] = "upd_store2"]
    /\ UNCHANGED <<mu, loc, hist, planVars, vqmVars, frameVars, expVars, lwVars, appVars>>

UpdateStore2(p) ==
    /\ pc[p] = "upd_store2"
    /\ store' = [store EXCEPT !.records = StoreSecondHalf(@, loc[p].id, loc[p].rec)]
    /\ pc' = [pc EXCEPT ![p] = "unlock"]
    /\ UNCHANGED <<mu, loc, hist, planVars, vqmVars, frameVars, expVars, lwVars, appVars>>

\* Delete: the existence check
DeleteCheck(p) ==
    /\ pc[p] = "del_check"
    /\ IF MapGet(store.records, loc[p].id).ok
       THEN /\ pc' = [pc EXCEPT ![p] = "del_delete"]
            /\ loc' = loc
       ELSE /\ pc' = [pc EXCEPT ![p] = "unlock"]
            /\ loc' = [loc EXCEPT ![p].err = ErrRecordNotFound]
    /\ UNCHANGED <<store, mu, hist, planVars, vqmVars, frameVars, expVars, lwVars, appVars>>

\* Delete: delete(s.records, id)
DeleteDelete(p) ==
    /\ pc[p] = "del_delete"
    /\ store' = [store EXCEPT !.records = DeleteRecord(@, loc[p].id)]
    /\ pc' = [pc EXCEPT ![p] = "unlock"]
    /\ UNCHANGED <<mu, loc, hist, planVars, vqmVars, frameVars, expVars, lwVars, appVars>>

\* the body of Get, Exists and GetIDs under the read lock
Read(p) ==
    /\ pc[p] = "read"
    /\ loc' = [loc EXCEPT ![p] =
         CASE loc[p].op = "Get" ->
                IF MapGet(store.records, loc[p].id).ok
                THEN [@ EXCEPT !.out = <<MapGet(store.records, loc[p].id).r>>]
                ELSE [@ EXCEPT !.out = <<MapGet(store.records, loc[p].id).r>>,
                               !.err = ErrRecordNotFound]
           [] loc[p].op = "Exists" ->
                [@ EXCEPT !.out = <<MapGet(store.records, loc[p].id).ok>>]
           [] OTHER -> [@ EXCEPT !.out = <<GetIDsOf(store)>>]]
    /\ pc' = [pc EXCEPT ![p] = "runlock"]
    /\ UNCHANGED <<store, mu, hist, planVars, vqmVars, frameVars, expVars, lwVars, appVars>>

\* The reference map of the history: the record that the latest successful
\* Insert or Update of an id was given, no entry once a Delete succeeded.
RefPut(ref, id, r) == [k \in DOMAIN ref \cup {id} |-> IF k = id THEN r ELSE ref[k]]
RefDrop(ref, id)   == [k \in DOMAIN ref \ {id} |-> ref[k]]

\* the deferred s.mu.Unlock() and the return of Insert, Update or Delete
Unlock(p) ==
    /\ pc[p] = "unlock"
    /\ mu' = [mu EXCEPT !.w = 0]
    /\ pc' = [pc EXCEPT ![p] = "idle"]
    /\ loc' = [loc EXCEPT ![p] = NoCall]
    /\ hist' = CASE loc[p].op = "Insert" ->
                    [hist EXCEPT !.insLog = Append(@, [id |-> loc[p].out[1], rec |-> loc[p].rec,
                                                       dels |-> hist.nDel]),
                                 !.ref = RefPut(@, loc[p].out[1], loc[p].rec)]
                 [] loc[p].op = "Update" ->
                    [hist EXCEPT !.updLog = @ \cup {[id |-> loc[p].id, rec |-> loc[p].rec,
                                                     err |-> loc[p].err, live |-> loc[p].live]},
                                 !.ref = IF loc[p].err = ErrNil
                                         THEN RefPut(@, loc[p].id, loc[p].rec) ELSE @]
                 [] OTHER ->
                    IF loc[p].err = ErrNil
                    THEN [hist EXCEPT !.nDel = @ + 1, !.deleted = @ \cup {loc[p].id},
                                      !.ref = RefDrop(@, loc[p].id),
                                      !.delLog = @ \cup {[id |-> loc[p].id, err |-> ErrNil,
                                                           live |-> loc[p].live]}]
                    ELSE [hist EXCEPT !.delLog = @ \cup {[id |-> loc[p].id,
                                                          err |-> loc[p].err,
                                                          live |-> loc[p].live]}]
    /\ UNCHANGED <<store, planVars, vqmVars, frameVars, expVars, lwVars, appVars>>

\* the deferred s.mu.RUnlock() and the return of Get, Exists or GetIDs
RUnlock(p) ==
    /\ pc[p] = "runlock"
    /\ mu' = [mu EXCEPT !.r = @ \ {p}]
    /\ pc' = [pc EXCEPT ![p] = "idle"]
    /\ loc' = [loc EXCEPT ![p] = NoCall]
    /\ UNCHANGED <<store, hist, planVars, vqmVars, frameVars, expVars, lwVars, appVars>>

(***************************************************************************)
(* encoding/json as the frame metrics and the report decoders use it.      *)
(* A document is a string; a parsed value is a tuple headed by its kind:   *)
(* <<"null">>, <<"bool", b>>, <<"num", text>>, <<"str", text>>,            *)
(* <<"arr", elements>>, <<"obj", members>> with members <<key, value>> in  *)
(* document order.  Strings of the documents hold no escapes.              *)
(***************************************************************************)
DigitChars == <<"0","1","2","3","4","5","6","7","8","9">>
Digits == { DigitChars[k] : k \in 1..10 }

IsWS(c) == c \in {" ", "\n", "\t", "\r"}

RECURSIVE SkipWS(_, _)
SkipWS(s, i) == IF i <= Len(s) /\ IsWS(s[i]) THEN SkipWS(s, i + 1) ELSE i

\* end (exclusive) of the run of digits starting at i
RECURSIVE DigitsEnd(_, _)
DigitsEnd(s, i) == IF i <= Len(s) /\ s[i] \in Digits THEN DigitsEnd(s, i + 1) ELSE i

CharAt(s, i) == IF i >= 1 /\ i <= Len(s) THEN s[i] ELSE ""

\* The scanner on a number starting at i: the end (exclusive) of
\* -? (0 | [1-9][0-9]*) (. [0-9]+)? ([eE] [+-]? [0-9]+)?, or 0 when the text
\* at i is not a number.
ScanNumber(s, i) ==
    LET i1 == IF CharAt(s, i) = "-" THEN i + 1 ELSE i
        i2 == IF CharAt(s, i1) = "0" THEN i1 + 1 ELSE DigitsEnd(s, i1)
        i3 == IF CharAt(s, i2) = "." THEN DigitsEnd(s, i2 + 1) ELSE i2
        e1 == IF CharAt(s, i3 + 1) \in {"+", "-"} THEN i3 + 2 ELSE i3 + 1
        i4 == IF CharAt(s, i3) \in {"e", "E"} THEN DigitsEnd(s, e1) ELSE i3
    IN  IF i2 = i1 THEN 0
        ELSE IF CharAt(s, i2) = "." /\ i3 = i2 + 1 THEN 0
        ELSE IF CharAt(s, i3) \in {"e", "E"} /\ i4 = e1 THEN 0
        ELSE i4

\* index of the closing quote of the string that opens at i, 0 if unterminated
RECURSIVE StringEnd(_, _)
StringEnd(s, i) ==
    IF i > Len(s) THEN 0
    ELSE IF s[i] = "\"" THEN i
    ELSE StringEnd(s, i + 1)

JSONFail == [ok |-> FALSE, v |-> <<"null">>, i |-> 0]

JSONLiterals ==
    << [text |-> <<"n","u","l","l">>,     v |-> <<"null">>],
       [text |-> <<"t","r","u","e">>,     v |-> <<"bool", TRUE>>],
       [text |-> <<"f","a","l","s","e">>, v |-> <<"bool", FALSE>>] >>

RECURSIVE ParseValue(_, _)
RECURSIVE ParseElems(_, _, _)
RECURSIVE ParseMembers(_, _, _)

\* the elements of a non-empty array after "[" and after each ","
ParseElems(s, i, acc) ==
    LET r == ParseValue(s, SkipWS(s, i))
        j == SkipWS(s, r.i)
    IN  IF ~r.ok THEN JSONFail
        ELSE IF CharAt(s, j) = "," THEN ParseElems(s, j + 1, Append(acc, r.v))
        ELSE IF CharAt(s, j) = "]"
             THEN [ok |-> TRUE, v |-> <<"arr", Append(acc, r.v)>>, i |-> j + 1]
        ELSE JSONFail

\* the members of an object after "{" and after each ","
ParseMembers(s, i, acc) ==
    LET k    == SkipWS(s, i)
        kEnd == StringEnd(s, k + 1)
        c    == SkipWS(s, kEnd + 1)
        r    == ParseValue(s, SkipWS(s, c + 1))
        j    == SkipWS(s, r.i)
        m    == <<SubSeq(s, k + 1, kEnd - 1), r.v>>
    IN  IF CharAt(s, k) # "\"" \/ kEnd = 0 THEN JSONFail
        ELSE IF CharAt(s, c) # ":" THEN JSONFail
        ELSE IF ~r.ok THEN JSONFail
        ELSE IF CharAt(s, j) = "," THEN ParseMembers(s, j + 1, Append(acc, m))
        ELSE IF CharAt(s, j) = "}"
             THEN [ok |-> TRUE, v |-> <<"obj", Append(acc, m)>>, i |-> j + 1]
        ELSE JSONFail

\* the value that starts at i (no white space before it)
ParseValue(s, i) ==
    LET c == CharAt(s, i)
    IN  CASE c = "[" ->
                IF CharAt(s, SkipWS(s, i + 1)) = "]"
                THEN [ok |-> TRUE, v |-> <<"arr", <<>>>>, i |-> SkipWS(s, i + 1) + 1]
                ELSE ParseElems(s, i + 1, <<>>)
          [] c = "{" ->
                IF CharAt(s, SkipWS(s, i + 1)) = "}"
                THEN [ok |-> TRUE, v |-> <<"obj", <<>>>>, i |-> SkipWS(s, i + 1) + 1]
                ELSE ParseMembers(s, i + 1, <<>>)
          [] c = "\"" ->
                IF StringEnd(s, i + 1) = 0 THEN JSONFail
                ELSE [ok |-> TRUE, v |-> <<"str", SubSeq(s, i + 1, StringEnd(s, i + 1) - 1)>>,
                      i |-> StringEnd(s, i + 1) + 1]
          [] c = "-" \/ c \in Digits ->
                IF ScanNumber(s, i) = 0 THEN JSONFail
                ELSE [ok |-> TRUE, v |-> <<"num", SubSeq(s, i, ScanNumber(s, i) - 1)>>,
                      i |-> ScanNumber(s, i)]
          [] OTHER ->
                IF \E k \in 1..3 : HasPrefixAt(s, JSONLiterals[k].text, i)
                THEN LET k == CHOOSE k \in 1..3 : HasPrefixAt(s, JSONLiterals[k].text, i)
                     IN  [ok |-> TRUE, v |-> JSONLiterals[k].v,
                          i |-> i + Len(JSONLiterals[k].text)]
                ELSE JSONFail

\* a scan that takes zero-length input for null
ParseJSONEmptyAsNull(data) ==
    LET r == ParseValue(data, SkipWS(data, 1))
    IN  IF data = <<>> THEN [ok |-> TRUE, v |-> <<"null">>]
        ELSE IF r.ok /\ SkipWS(data, r.i) = Len(data) + 1
        THEN [ok |-> TRUE, v |-> r.v]
        ELSE [ok |-> FALSE, v |-> <<"null">>]

\* checkValid and the scan of a whole document: one value, white space around
\* it, nothing else; zero-length input is "unexpected end of JSON input"
ParseJSON(data) ==
    LET r == ParseValue(data, SkipWS(data, 1))
    IN  IF r.ok /\ SkipWS(data, r.i) = Len(data) + 1
        THEN [ok |-> TRUE, v |-> r.v]
        ELSE [ok |-> FALSE, v |-> <<"null">>]

(***************************************************************************)
(* Numbers.  A float64 is held as the shortest decimal that identifies it: *)
(* sign, digits d1..dn (no leading or trailing zero, none for zero) and    *)
(* the position dp of the decimal point, value = 0.d1..dn * 10^dp.  That   *)
(* is what strconv.FormatFloat(f, fmt, -1, 64) lays out and, for texts of  *)
(* up to 15 significant digits, what strconv.ParseFloat identifies.        *)
(***************************************************************************)
DigitVal(c) == CHOOSE k \in 0..9 : DigitChars[k + 1] = c

\* value of a digit string of at most 9 digits (none longer occurs)
RECURSIVE NatOfDigits(_)
NatOfDigits(ds) ==
    IF ds = <<>> THEN 0
    ELSE 10 * NatOfDigits(SubSeq(ds, 1, Len(ds) - 1)) + DigitVal(ds[Len(ds)])

\* strconv.AppendUint(.., 10)
RECURSIVE DigitsOfNat(_)
DigitsOfNat(n) ==
    IF n < 10 THEN <<DigitChars[n + 1]>>
    ELSE DigitsOfNat(n \div 10) \o <<DigitChars[(n % 10) + 1]>>

RECURSIVE Zeros(_)
Zeros(n) == IF n <= 0 THEN <<>> ELSE <<"0">> \o Zeros(n - 1)

RECURSIVE StripLeadingZeros(_)
StripLeadingZeros(ds) ==
    IF ds # <<>> /\ Head(ds) = "0" THEN StripLeadingZeros(Tail(ds)) ELSE ds

RECURSIVE StripTrailingZeros(_)
StripTrailingZeros(ds) ==
    IF ds # <<>> /\ ds[Len(ds)] = "0"
    THEN StripTrailingZeros(SubSeq(ds, 1, Len(ds) - 1)) ELSE ds

\* k is "fin" for a finite value; the decoders produce no other
Float(neg, d, dp) == [k |-> "fin", neg |-> neg, d |-> d, dp |-> dp]
FloatZero == Float(FALSE, <<>>, 0)

\* strconv.ParseUint(text, 10, 64) on the text of a JSON number
ParseUint(text) ==
    IF \A k \in 1..Len(text) : text[k] \in Digits
    THEN [ok |-> TRUE, n |-> NatOfDigits(text)]
    ELSE [ok |-> FALSE, n |-> 0]

\* first index of a character of set cs in s, 0 if none
IndexOfAny(s, cs) ==
    IF \E i \in 1..Len(s) : s[i] \in cs
    THEN CHOOSE i \in 1..Len(s) : s[i] \in cs /\ \A j \in 1..(i - 1) : s[j] \notin cs
    ELSE 0

\* strconv.ParseFloat(text, 64) on the text of a JSON number
ParseFloat(text) ==
    LET neg   == text[1] = "-"
        body  == IF neg THEN Tail(text) ELSE text
        ePos  == IndexOfAny(body, {"e", "E"})
        mant  == IF ePos = 0 THEN body ELSE SubSeq(body, 1, ePos - 1)
        eTxt  == IF ePos = 0 THEN <<>> ELSE SubSeq(body, ePos + 1, Len(body))
        eNeg  == eTxt # <<>> /\ Head(eTxt) = "-"
        eDig  == IF eTxt # <<>> /\ Head(eTxt) \in {"+", "-"} THEN Tail(eTxt) ELSE eTxt
        exp   == IF eNeg THEN 0 - NatOfDigits(eDig) ELSE NatOfDigits(eDig)
        dot   == IndexOfAny(mant, {"."})
        intD  == IF dot = 0 THEN mant ELSE SubSeq(mant, 1, dot - 1)
        fracD == IF dot = 0 THEN <<>> ELSE SubSeq(mant, dot + 1, Len(mant))
        all   == intD \o fracD
        lead  == StripLeadingZeros(all)
        d     == StripTrailingZeros(lead)
        dp    == Len(intD) - (Len(all) - Len(lead)) + exp
    IN  IF d = <<>> THEN [ok |-> TRUE, f |-> Float(neg, <<>>, 0)]
        \* beyond 1.79e308: ErrRange
        ELSE IF dp > 309 THEN [ok |-> FALSE, f |-> FloatZero]
        ELSE [ok |-> TRUE, f |-> Float(neg, d, dp)]

\* digit i (1-based) of d, "0" outside of it
DigitOr0(d, i) == IF i >= 1 /\ i <= Len(d) THEN d[i] ELSE "0"

\* a %f that drops the zeros between the point and the first digit
FormatFNoPad(f) ==
    LET n    == Len(f.d)
        int  == IF f.dp > 0
                THEN [i \in 1..f.dp |-> DigitOr0(f.d, i)]
                ELSE <<"0">>
        frac == IF n > f.dp
                THEN <<".">> \o SubSeq(f.d, (IF f.dp > 0 THEN f.dp ELSE 0) + 1, n)
                ELSE <<>>
    IN  int \o frac

\* %f with the shortest digits: integer part, then the fraction if any
FormatF(f) ==
    LET n    == Len(f.d)
        int  == IF f.dp > 0
                THEN [i \in 1..f.dp |-> DigitOr0(f.d, i)]
                ELSE <<"0">>
        frac == IF n > f.dp
                THEN <<".">> \o Zeros(0 - f.dp)
                     \o SubSeq(f.d, (IF f.dp > 0 THEN f.dp ELSE 0) + 1, n)
                ELSE <<>>
    IN  int \o frac

\* %e with the shortest digits: d.ddde+XX, and the clean-up of the encoder
\* that turns e-09 into e-9
FormatE(f) ==
    LET n    == Len(f.d)
        exp  == f.dp - 1
        abs  == IF exp < 0 THEN 0 - exp ELSE exp
        mant == <<f.d[1]>> \o (IF n > 1 THEN <<".">> \o SubSeq(f.d, 2, n) ELSE <<>>)
        eDig == IF abs < 10
                THEN (IF exp < 0 THEN <<>> ELSE <<"0">>) \o DigitsOfNat(abs)
                ELSE DigitsOfNat(abs)
    IN  mant \o <<"e", IF exp < 0 THEN "-" ELSE "+">> \o eDig

\* floatEncoder of encoding/json: the text, or an UnsupportedValueError
EncodeFloat(f) ==
    IF f.k # "fin" THEN [ok |-> FALSE, text |-> <<>>]
    ELSE LET useE == f.d # <<>> /\ (f.dp <= -6 \/ f.dp >= 22)
             body == IF useE THEN FormatE(f) ELSE FormatF(f)
         IN  [ok |-> TRUE, text |-> (IF f.neg THEN <<"-">> ELSE <<>>) \o body]

(***************************************************************************)
(* vqm.FrameMetrics: ToJSON and FromJSON                                   *)
(***************************************************************************)
ErrJSONSyntax      == "json: syntax error"
ErrJSONType        == "json: cannot unmarshal"
ErrFromJSONRead    == "FromJSON() Read from io.Reader"
ErrFromJSONSyntax  == "FromJSON() JSON unmarshal: syntax error"
ErrFromJSONType    == "FromJSON() JSON unmarshal: cannot unmarshal"
ErrToJSONMarshal   == "ToJSON() marshal"
ErrToJSONWrite     == "ToJSON() write to Writer"

\* FrameMetric{}
ZeroFrameMetric ==
    [FrameNum |-> 0, VMAF |-> FloatZero, PSNR |-> FloatZero, MS_SSIM |-> FloatZero]

\* A FrameMetrics value is a slice: nil or not, its elements, and what the
\* backing array still holds beyond its length.
NilFrameMetrics == [nil |-> TRUE, elems |-> <<>>, spare |-> <<>>]
FrameMetricsOf(elems) == [nil |-> FALSE, elems |-> elems, spare |-> <<>>]

KeyFrameNum == <<"F","r","a","m","e","N","u","m">>
KeyVMAF     == <<"V","M","A","F">>
KeyPSNR     == <<"P","S","N","R">>
KeyMS_SSIM  == <<"M","S","_","S","S","I","M">>

Quoted(text) == <<"\"">> \o text \o <<"\"">>

RECURSIVE Spaces(_)
Spaces(n) == IF n <= 0 THEN <<>> ELSE <<" ">> \o Spaces(n - 1)

\* one member line of an indented object: `"key": value`
MemberLine(depth, key, text) ==
    <<"\n">> \o Spaces(2 * depth) \o Quoted(key) \o <<":", " ">> \o text

\* a FrameMetric as an object at nesting depth 1 of MarshalIndent(.., "", "  ")
EncodeFrameMetric(m) ==
    LET v == EncodeFloat(m.VMAF)
        p == EncodeFloat(m.PSNR)
        s == EncodeFloat(m.MS_SSIM)
    IN  [ok   |-> v.ok /\ p.ok /\ s.ok,
         text |-> <<"{">>
                  \o MemberLine(2, KeyFrameNum, DigitsOfNat(m.FrameNum)) \o <<",">>
                  \o MemberLine(2, KeyVMAF, v.text) \o <<",">>
                  \o MemberLine(2, KeyPSNR, p.text) \o <<",">>
                  \o MemberLine(2, KeyMS_SSIM, s.text)
                  \o <<"\n">> \o Spaces(2) \o <<"}">>]

RECURSIVE EncodeElems(_, _)
EncodeElems(elems, k) ==
    IF k > Len(elems) THEN <<>>
    ELSE <<"\n">> \o Spaces(2) \o EncodeFrameMetric(elems[k]).text
         \o (IF k < Len(elems) THEN <<",">> ELSE <<>>)
         \o EncodeElems(elems, k + 1)

\* json.MarshalIndent(fm, "", "  ")
MarshalIndent(fm) ==
    IF fm.nil THEN [ok |-> TRUE, text |-> <<"n","u","l","l">>]
    ELSE IF fm.elems = <<>> THEN [ok |-> TRUE, text |-> <<"[", "]">>]
    ELSE [ok   |-> \A k \in 1..Len(fm.elems) : EncodeFrameMetric(fm.elems[k]).ok,
          text |-> <<"[">> \o EncodeElems(fm.elems, 1) \o <<"\n", "]">>]

UpperChars == <<"A","B","C","D","E","F","G","H","I","J","K","L","M",
                "N","O","P","Q","R","S","T","U","V","W","X","Y","Z">>
LowerChars == <<"a","b","c","d","e","f","g","h","i","j","k","l","m",
                "n","o","p","q","r","s","t","u","v","w","x","y","z">>

ToLower(c) ==
    IF \E k \in 1..26 : UpperChars[k] = c
    THEN LowerChars[CHOOSE k \in 1..26 : UpperChars[k] = c]
    ELSE c

\* the match of a JSON key with a field name: exact or case-insensitive
FoldEq(a, b) ==
    /\ Len(a) = Len(b)
    /\ \A k \in 1..Len(a) : ToLower(a[k]) = ToLower(b[k])

\* One member decoded into FrameMetric m: a key that matches no field is
\* skipped, null leaves the field, a value of the wrong kind or a number the
\* field cannot hold is an UnmarshalTypeError and leaves the field.
DecodeMember(m, key, val) ==
    LET bad     == [m |-> m, err |-> ErrJSONType]
        good(x) == [m |-> x, err |-> ErrNil]
        decode(isNum, u, f) ==
            IF val[1] = "null" THEN good(m)
            ELSE IF FoldEq(key, KeyFrameNum)
                 THEN (IF isNum /\ u.ok THEN good([m EXCEPT !.FrameNum = u.n]) ELSE bad)
            ELSE IF FoldEq(key, KeyVMAF)
                 THEN (IF isNum /\ f.ok THEN good([m EXCEPT !.VMAF = f.f]) ELSE bad)
            ELSE IF FoldEq(key, KeyPSNR)
                 THEN (IF isNum /\ f.ok THEN good([m EXCEPT !.PSNR = f.f]) ELSE bad)
            ELSE IF FoldEq(key, KeyMS_SSIM)
                 THEN (IF isNum /\ f.ok THEN good([m EXCEPT !.MS_SSIM = f.f]) ELSE bad)
            ELSE good(m)
    IN  decode(val[1] = "num", ParseUint(val[2]), ParseFloat(val[2]))

\* the members of an object decoded in document order; the first error is kept
RECURSIVE DecodeMembers(_, _, _, _)
DecodeMembers(m, err, members, k) ==
    IF k > Len(members) THEN [m |-> m, err |-> err]
    ELSE LET next(r) == DecodeMembers(r.m, IF err = ErrNil THEN r.err ELSE err, members, k + 1)
         IN  next(DecodeMember(m, members[k][1], members[k][2]))

\* one array element decoded into the FrameMetric that the slot holds
DecodeElem(base, tree) ==
    CASE tree[1] = "obj"  -> DecodeMembers(base, ErrNil, tree[2], 1)
      [] tree[1] = "null" -> [m |-> base, err |-> ErrNil]
      [] OTHER            -> [m |-> base, err |-> ErrJSONType]

\* the first error of a sequence of results
RECURSIVE FirstErr(_, _)
FirstErr(rs, k) ==
    IF k > Len(rs) THEN ErrNil
    ELSE IF rs[k].err # ErrNil THEN rs[k].err
    ELSE FirstErr(rs, k + 1)

\* json.Unmarshal(data, fm): element i is decoded into what slot i of the
\* backing array holds (the zero value once the array has to grow), the slice
\* is cut to the number of elements, `[]` makes a new empty slice, null the nil
\* slice, any other value is an UnmarshalTypeError.
Unmarshal(data, fm) ==
    LET old     == fm.elems \o fm.spare
        base(i) == IF i <= Len(old) THEN old[i] ELSE ZeroFrameMetric
        filled(rs) ==
            [fm  |-> [nil   |-> FALSE,
                      elems |-> [i \in 1..Len(rs) |-> rs[i].m],
                      spare |-> SubSeq(old, Len(rs) + 1, Len(old))],
             err |-> FirstErr(rs, 1)]
        decode(doc) ==
            IF ~doc.ok THEN [fm |-> fm, err |-> ErrJSONSyntax]
            ELSE CASE doc.v[1] = "null" -> [fm |-> NilFrameMetrics, err |-> ErrNil]
                   [] doc.v[1] = "arr" ->
                        IF doc.v[2] = <<>>
                        THEN [fm |-> FrameMetricsOf(<<>>), err |-> ErrNil]
                        ELSE filled([i \in 1..Len(doc.v[2]) |-> DecodeElem(base(i), doc.v[2][i])])
                   [] OTHER -> [fm |-> fm, err |-> ErrJSONType]
    IN  decode(ParseJSON(data))

\* FrameMetrics.FromJSON on a reader that yields data, or fails
FromJSONOutcome(fm, data, readOK) ==
    LET wrap(r) ==
            [fm  |-> r.fm,
             err |-> CASE r.err = ErrJSONSyntax -> ErrFromJSONSyntax
                       [] r.err = ErrJSONType   -> ErrFromJSONType
                       [] OTHER                 -> ErrNil]
    IN  IF ~readOK THEN [fm |-> fm, err |-> ErrFromJSONRead]
        ELSE wrap(Unmarshal(data, fm))

\* FrameMetrics.ToJSON into an empty buffer; a Write that fails leaves the
\* first cut bytes in it
ToJSONOutcome(fm, writeOK, cut) ==
    LET write(j) ==
            IF ~j.ok THEN [buf |-> <<>>, err |-> ErrToJSONMarshal]
            ELSE IF ~writeOK
                 THEN [buf |-> SubSeq(j.text, 1, IF cut < Len(j.text) THEN cut ELSE Len(j.text)),
                       err |-> ErrToJSONWrite]
            ELSE [buf |-> j.text, err |-> ErrNil]
    IN  write(MarshalIndent(fm))

(***************************************************************************)
(* The libvmaf report: ffmpegVMAFResult, frame, metric, pooledMetrics,     *)
(* pMetric and FrameMetrics.FromFfmpegVMAF                                 *)
(***************************************************************************)
ErrFromFfmpegVMAFRead == "FromFfmpegVMAF() reading"
ErrFromFfmpegVMAFJSON == "FromFfmpegVMAF() unmarshal JSON"

KeyVersion       == <<"v","e","r","s","i","o","n">>
KeyFrames        == <<"f","r","a","m","e","s">>
KeyPooledMetrics == <<"p","o","o","l","e","d","_","m","e","t","r","i","c","s">>
KeyFrameNumTag   == <<"f","r","a","m","e","N","u","m">>
KeyMetrics       == <<"m","e","t","r","i","c","s">>
KeyMin           == <<"m","i","n">>
KeyMax           == <<"m","a","x">>
KeyMean          == <<"m","e","a","n">>
KeyHarmonicMean  == <<"h","a","r","m","o","n","i","c","_","m","e","a","n">>

\* the keys that the custom unmarshalers switch on
KeyVmaf        == <<"v","m","a","f">>
KeyPsnr        == <<"p","s","n","r">>
KeyPsnrY       == <<"p","s","n","r","_","y">>
KeyMsSsim      == <<"m","s","_","s","s","i","m">>
KeyFloatMsSsim == <<"f","l","o","a","t","_","m","s","_","s","s","i","m">>

ZeroMetric  == [VMAF |-> FloatZero, PSNR |-> FloatZero, MS_SSIM |-> FloatZero]
ZeroPMetric == [Min |-> FloatZero, Max |-> FloatZero, Mean |-> FloatZero,
                HarmonicMean |-> FloatZero]
ZeroPooledMetrics == [VMAF |-> ZeroPMetric, PSNR |-> ZeroPMetric, MS_SSIM |-> ZeroPMetric]
ZeroFrame   == [FrameNum |-> 0, Metrics |-> ZeroMetric]

\* &ffmpegVMAFResult{}
NoReport == [Version |-> <<>>, Frames |-> <<>>, PooledMetrics |-> ZeroPooledMetrics]

\* m[key] = x on a Go map
MapPut(m, key, x) == [q \in DOMAIN m \cup {key} |-> IF q = key THEN x ELSE m[q]]

\* a float64 decoded from a value: null leaves the zero value
DecodeFloat(val) ==
    LET number(p) ==
            IF p.ok THEN [f |-> p.f, err |-> ErrNil]
            ELSE [f |-> FloatZero, err |-> ErrJSONType]
    IN  IF val[1] = "null" THEN [f |-> FloatZero, err |-> ErrNil]
        ELSE IF val[1] = "num" THEN number(ParseFloat(val[2]))
        ELSE [f |-> FloatZero, err |-> ErrJSONType]

\* json.Unmarshal(b, &raw) into a map[string]float64: every member is put,
\* in document order, a later member of the same key replacing the earlier
RECURSIVE RawFloats(_, _, _, _)
RawFloats(members, k, raw, err) ==
    IF k > Len(members) THEN [raw |-> raw, err |-> err]
    ELSE LET next(x) == RawFloats(members, k + 1, MapPut(raw, members[k][1], x.f),
                                  IF err = ErrNil THEN x.err ELSE err)
         IN  next(DecodeFloat(members[k][2]))

\* a switch that knows the unsuffixed names only
PickFieldNoAlias(raw, name, alias, aliasLast, cur) ==
    IF name \in DOMAIN raw THEN raw[name] ELSE cur

\* The loop `for k, v := range raw` with its switch, for one field: the
\* iteration order of a Go map is not defined, so with both names of the field
\* in the map the name visited last wins; aliasLast is that choice.
PickField(raw, name, alias, aliasLast, cur) ==
    IF name \in DOMAIN raw /\ alias \in DOMAIN raw
    THEN (IF aliasLast THEN raw[alias] ELSE raw[name])
    ELSE IF name \in DOMAIN raw THEN raw[name]
    ELSE IF alias \in DOMAIN raw THEN raw[alias]
    ELSE cur

\* the fields that the loop assigns from raw
AssignFields(m, raw, order) ==
    [VMAF    |-> IF KeyVmaf \in DOMAIN raw THEN raw[KeyVmaf] ELSE m.VMAF,
     PSNR    |-> PickField(raw, KeyPsnr, KeyPsnrY, order.psnr, m.PSNR),
     MS_SSIM |-> PickField(raw, KeyMsSsim, KeyFloatMsSsim, order.ssim, m.MS_SSIM)]

\* metric.UnmarshalJSON
MetricUnmarshalJSON(m, val, order) ==
    LET assign(r) ==
            IF r.err # ErrNil THEN [m |-> m, err |-> r.err]
            ELSE [m |-> AssignFields(m, r.raw, order), err |-> ErrNil]
    IN  IF val[1] = "null" THEN [m |-> m, err |-> ErrNil]
        ELSE IF val[1] # "obj" THEN [m |-> m, err |-> ErrJSONType]
        ELSE assign(RawFloats(val[2], 1, <<>>, ErrNil))

\* one member decoded into a pMetric (tags min, max, mean, harmonic_mean)
DecodePMetricMember(pm, key, val) ==
    LET decode(x) ==
            LET set(v) == [m |-> IF val[1] = "null" \/ x.err # ErrNil THEN pm ELSE v,
                           err |-> x.err]
            IN  IF FoldEq(key, KeyMin) THEN set([pm EXCEPT !.Min = x.f])
                ELSE IF FoldEq(key, KeyMax) THEN set([pm EXCEPT !.Max = x.f])
                ELSE IF FoldEq(key, KeyMean) THEN set([pm EXCEPT !.Mean = x.f])
                ELSE IF FoldEq(key, KeyHarmonicMean) THEN set([pm EXCEPT !.HarmonicMean = x.f])
                ELSE [m |-> pm, err |-> ErrNil]
    IN  decode(DecodeFloat(val))

RECURSIVE DecodePMetricMembers(_, _, _, _)
DecodePMetricMembers(pm, err, members, k) ==
    IF k > Len(members) THEN [m |-> pm, err |-> err]
    ELSE LET next(r) == DecodePMetricMembers(r.m, IF err = ErrNil THEN r.err ELSE err,
                                             members, k + 1)
         IN  next(DecodePMetricMember(pm, members[k][1], members[k][2]))

\* a pMetric decoded from a value into a new map element
DecodePMetric(val) ==
    CASE val[1] = "obj"  -> DecodePMetricMembers(ZeroPMetric, ErrNil, val[2], 1)
      [] val[1] = "null" -> [m |-> ZeroPMetric, err |-> ErrNil]
      [] OTHER           -> [m |-> ZeroPMetric, err |-> ErrJSONType]

\* json.Unmarshal(b, &raw) into a map[string]pMetric
RECURSIVE RawPMetrics(_, _, _, _)
RawPMetrics(members, k, raw, err) ==
    IF k > Len(members) THEN [raw |-> raw, err |-> err]
    ELSE LET next(x) == RawPMetrics(members, k + 1, MapPut(raw, members[k][1], x.m),
                                    IF err = ErrNil THEN x.err ELSE err)
         IN  next(DecodePMetric(members[k][2]))

\* pooledMetrics.UnmarshalJSON
PooledMetricsUnmarshalJSON(pm, val, order) ==
    LET assign(r) ==
            IF r.err # ErrNil THEN [m |-> pm, err |-> r.err]
            ELSE [m |-> AssignFields(pm, r.raw, order), err |-> ErrNil]
    IN  IF val[1] = "null" THEN [m |-> pm, err |-> ErrNil]
        ELSE IF val[1] # "obj" THEN [m |-> pm, err |-> ErrJSONType]
        ELSE assign(RawPMetrics(val[2], 1, <<>>, ErrNil))

\* one member decoded into a frame (tags frameNum, metrics)
DecodeFrameMember(fr, key, val, order) ==
    LET number(u) ==
            IF u.ok THEN [m |-> [fr EXCEPT !.FrameNum = u.n], err |-> ErrNil]
            ELSE [m |-> fr, err |-> ErrJSONType]
        metrics(r) == [m |-> [fr EXCEPT !.Metrics = r.m], err |-> r.err]
    IN  IF FoldEq(key, KeyFrameNumTag)
        THEN (IF val[1] = "null" THEN [m |-> fr, err |-> ErrNil]
              ELSE IF val[1] = "num" THEN number(ParseUint(val[2]))
              ELSE [m |-> fr, err |-> ErrJSONType])
        ELSE IF FoldEq(key, KeyMetrics)
        THEN metrics(MetricUnmarshalJSON(fr.Metrics, val, order))
        ELSE [m |-> fr, err |-> ErrNil]

RECURSIVE DecodeFrameMembers(_, _, _, _, _)
DecodeFrameMembers(fr, err, members, k, order) ==
    IF k > Len(members) THEN [m |-> fr, err |-> err]
    ELSE LET next(r) == DecodeFrameMembers(r.m, IF err = ErrNil THEN r.err ELSE err,
                                           members, k + 1, order)
         IN  next(DecodeFrameMember(fr, members[k][1], members[k][2], order))

\* one element of "frames" decoded into a new frame
DecodeFrame(val, order) ==
    CASE val[1] = "obj"  -> DecodeFrameMembers(ZeroFrame, ErrNil, val[2], 1, order)
      [] val[1] = "null" -> [m |-> ZeroFrame, err |-> ErrNil]
      [] OTHER           -> [m |-> ZeroFrame, err |-> ErrJSONType]

\* one member decoded into the ffmpegVMAFResult (tags version, frames,
\* pooled_metrics)
DecodeResultMember(res, key, val, order) ==
    LET frames(rs) == [m   |-> [res EXCEPT !.Frames = [i \in 1..Len(rs) |-> rs[i].m]],
                       err |-> FirstErr(rs, 1)]
        pooled(r)  == [m |-> [res EXCEPT !.PooledMetrics = r.m], err |-> r.err]
    IN  IF val[1] = "null" /\ ~FoldEq(key, KeyFrames) THEN [m |-> res, err |-> ErrNil]
        ELSE IF FoldEq(key, KeyVersion)
        THEN (IF val[1] = "str" THEN [m |-> [res EXCEPT !.Version = val[2]], err |-> ErrNil]
                                ELSE [m |-> res, err |-> ErrJSONType])
        ELSE IF FoldEq(key, KeyFrames)
        THEN (CASE val[1] = "arr" ->
                     frames([i \in 1..Len(val[2]) |-> DecodeFrame(val[2][i], order.f)])
                [] val[1] = "null" -> [m |-> [res EXCEPT !.Frames = <<>>], err |-> ErrNil]
                [] OTHER -> [m |-> res, err |-> ErrJSONType])
        ELSE IF FoldEq(key, KeyPooledMetrics)
        THEN pooled(PooledMetricsUnmarshalJSON(res.PooledMetrics, val, order.p))
        ELSE [m |-> res, err |-> ErrNil]

RECURSIVE DecodeResultMembers(_, _, _, _, _)
DecodeResultMembers(res, err, members, k, order) ==
    IF k > Len(members) THEN [m |-> res, err |-> err]
    ELSE LET next(r) == DecodeResultMembers(r.m, IF err = ErrNil THEN r.err ELSE err,
                                            members, k + 1, order)
         IN  next(DecodeResultMember(res, members[k][1], members[k][2], order))

\* json.Unmarshal(b, res) on res := &ffmpegVMAFResult{}
UnmarshalResult(data, order) ==
    LET decode(doc) ==
            IF ~doc.ok THEN [m |-> NoReport, err |-> ErrJSONSyntax]
            ELSE CASE doc.v[1] = "obj"  ->
                        DecodeResultMembers(NoReport, ErrNil, doc.v[2], 1, order)
                   [] doc.v[1] = "null" -> [m |-> NoReport, err |-> ErrNil]
                   [] OTHER             -> [m |-> NoReport, err |-> ErrJSONType]
    IN  decode(ParseJSON(data))

\* the FrameMetric appended for a frame of the report
FrameMetricOf(fr) ==
    [FrameNum |-> fr.FrameNum, VMAF |-> fr.Metrics.VMAF,
     PSNR |-> fr.Metrics.PSNR, MS_SSIM |-> fr.Metrics.MS_SSIM]

\* *fm = append(*fm, ...) for every element of add
AppendAll(fm, add) ==
    IF add = <<>> THEN fm
    ELSE [nil   |-> FALSE,
          elems |-> fm.elems \o add,
          spare |-> IF Len(add) < Len(fm.spare)
                    THEN SubSeq(fm.spare, Len(add) + 1, Len(fm.spare)) ELSE <<>>]

\* FrameMetrics.FromFfmpegVMAF: the receiver after the call, the decoded
\* report when there was no error (it is dropped otherwise) and the error
FromFfmpegVMAFOutcome(fm, data, readOK, order) ==
    LET append(r) ==
            IF r.err # ErrNil
            THEN [fm |-> fm, res |-> NoReport, err |-> ErrFromFfmpegVMAFJSON]
            ELSE [fm  |-> AppendAll(fm, [i \in 1..Len(r.m.Frames) |->
                                            FrameMetricOf(r.m.Frames[i])]),
                  res |-> r.m, err |-> ErrNil]
    IN  IF ~readOK THEN [fm |-> fm, res |-> NoReport, err |-> ErrFromFfmpegVMAFRead]
        ELSE append(UnmarshalResult(data, order))

\* a < b on float64 values
FloatLess(a, b) ==
    LET zero(x) == x.d = <<>>
        n == IF Len(a.d) > Len(b.d) THEN Len(a.d) ELSE Len(b.d)
        digitsLess(x, y) ==
            \E i \in 1..n :
                /\ DigitVal(DigitOr0(x.d, i)) < DigitVal(DigitOr0(y.d, i))
                /\ \A j \in 1..(i - 1) : DigitOr0(x.d, j) = DigitOr0(y.d, j)
        magLess(x, y) == x.dp < y.dp \/ (x.dp = y.dp /\ digitsLess(x, y))
    IN  IF zero(a) THEN ~zero(b) /\ ~b.neg
        ELSE IF zero(b) THEN a.neg
        ELSE IF a.neg # b.neg THEN a.neg
        ELSE IF a.neg THEN magLess(b, a)
        ELSE magLess(a, b)

\* floats.Min and floats.Max of a vector that is not empty
FloatsMin(v) == v[CHOOSE i \in 1..Len(v) : \A j \in 1..Len(v) : ~FloatLess(v[j], v[i])]
FloatsMax(v) == v[CHOOSE i \in 1..Len(v) : \A j \in 1..Len(v) : ~FloatLess(v[i], v[j])]

\* The statistics of one score. HarmonicMean, Variance, Mean and StDev are
\* gonum's unweighted functions of the sample vector, which Stat stands for.
AggregateOf(v) == [Min |-> FloatsMin(v), Max |-> FloatsMax(v), Stat |-> v]

\* no AggregateMetric is returned
NoAggregate == <<>>

\* the vectors of the decoded frames and their statistics: floats.Min panics
\* on a vector of length zero
AggregateMetric(elems) ==
    LET vec(field) == [i \in 1..Len(elems) |-> elems[i][field]]
    IN  IF elems = <<>> THEN [err |-> ErrZeroLength, am |-> NoAggregate]
        ELSE [err |-> ErrNil,
              am  |-> [VMAF    |-> AggregateOf(vec("VMAF")),
                       PSNR    |-> AggregateOf(vec("PSNR")),
                       MS_SSIM |-> AggregateOf(vec("MS_SSIM"))]]

\* FfmpegVMAF.GetMetrics on a measured instance whose result file was opened
\* and holds data: the error, the AggregateMetric and the decoded report
GetMetricsOutcome(data, order) ==
    LET aggregate(o) ==
            LET ret(a) == [err |-> a.err, am |-> a.am, res |-> o.res]
            IN  IF o.err # ErrNil
                THEN [err |-> ErrParsingJSON, am |-> NoAggregate, res |-> NoReport]
                ELSE ret(AggregateMetric(o.fm.elems))
    IN  aggregate(FromFfmpegVMAFOutcome(NilFrameMetrics, data, TRUE, order))

(***************************************************************************)
(* The frame metrics and the documents of the model                        *)
(***************************************************************************)
MaxFrameSeq   == 2    \* longest FrameMetrics written
MaxCodecCalls == 2    \* calls of ToJSON and FromJSON

FramePool ==
    { [FrameNum |-> 0,  VMAF |-> Float(FALSE, <<"9","5","5">>, 2),
       PSNR |-> Float(FALSE, <<"4">>, 2), MS_SSIM |-> Float(FALSE, <<"5">>, -1)],
      [FrameNum |-> 12, VMAF |-> FloatZero,
       PSNR |-> Float(FALSE, <<"1">>, 22), MS_SSIM |-> Float(FALSE, <<"2","5">>, -6)],
      [FrameNum |-> 1,  VMAF |-> Float(TRUE, <<"3">>, 1),
       PSNR |-> Float(FALSE, <<"1","0","0","2","5">>, 3),
       MS_SSIM |-> Float(FALSE, <<"1">>, -9)] }

FrameMetricsPool ==
    {NilFrameMetrics} \cup { FrameMetricsOf(q) : q \in SeqsUpTo(FramePool, MaxFrameSeq) }

\* the receivers: a fresh `var fm FrameMetrics`, or one that was filled before
ReceiverPool ==
    { NilFrameMetrics,
      FrameMetricsOf(<< [FrameNum |-> 3, VMAF |-> Float(FALSE, <<"7">>, 1),
                         PSNR |-> Float(FALSE, <<"8">>, 1),
                         MS_SSIM |-> Float(FALSE, <<"9">>, 0)],
                        ZeroFrameMetric,
                        [FrameNum |-> 5, VMAF |-> Float(FALSE, <<"6">>, 1),
                         PSNR |-> FloatZero, MS_SSIM |-> FloatZero] >>) }

\* documents given to FromJSON besides what ToJSON wrote
JSONDocs ==
    << <<>>,
       <<"[","]">>,
       <<" ","["," ","]","\n">>,
       <<"n","u","l","l">>,
       <<"{","}">>,
       <<"[","{","\"","v","m","a","f","\"",":"," ","1",".","5","0",","," ","\"","P","S","N","R","\"",":"," ","2","e","1","}","]">>,
       <<"[","{","\"","F","r","a","m","e","N","u","m","\"",":"," ","-","1","}","]">>,
       <<"[","1","]">>,
       <<"[","{","\"","V","M","A","F","\"",":"," ","3","}">>,
       <<"[","{","\"","F","r","a","m","e","N","u","m","\"",":"," ","7",","," ","\"","x","\"",":"," ","\"","y","\"","}",","," ","n","u","l","l","]">> >>

\* what FromJSON reads: 0 is the buffer that ToJSON wrote
DataOf(src) == IF src = 0 THEN jsonBuf ELSE JSONDocs[src]

\* ---- the reports of the model ----
MaxReportFrames == 2    \* most frames in a report

\* `{"k1": v1, "k2": v2}` from <<key, value text>> pairs
RECURSIVE MembersText(_, _)
MembersText(pairs, k) ==
    IF k > Len(pairs) THEN <<>>
    ELSE Quoted(pairs[k][1]) \o <<":", " ">> \o pairs[k][2]
         \o (IF k < Len(pairs) THEN <<",", " ">> ELSE <<>>)
         \o MembersText(pairs, k + 1)
ObjText(pairs) == <<"{">> \o MembersText(pairs, 1) \o <<"}">>

RECURSIVE ElemsText(_, _)
ElemsText(texts, k) ==
    IF k > Len(texts) THEN <<>>
    ELSE texts[k] \o (IF k < Len(texts) THEN <<",", " ">> ELSE <<>>)
         \o ElemsText(texts, k + 1)
ArrText(texts) == <<"[">> \o ElemsText(texts, 1) \o <<"]">>

\* How a report names a score: by its unsuffixed name, by its alias, or by
\* both (the alias then with another number).
Namings == {"name", "alias", "both"}
NumTexts == { <<"4","0",".","2","5">>, <<"3","e","1">> }
OtherNumText == <<"7">>

\* the members of a score under a naming
Named(naming, name, alias, text, other) ==
    CASE naming = "name"  -> << <<name, text>> >>
      [] naming = "alias" -> << <<alias, text>> >>
      [] OTHER            -> << <<name, text>>, <<alias, other>> >>

PMetricText(text) ==
    ObjText(<< <<KeyMin, text>>, <<KeyMax, text>>, <<KeyMean, text>>,
               <<KeyHarmonicMean, text>> >>)

\* The shape of a report: the value of the field "adm", which the decoder
\* does not know, in the per-frame metric objects; whether these carry
\* "vmaf"; whether "frames" holds the frames or is empty; and the pooled
\* section: as libvmaf writes it, left out, a string, or with a member that
\* is not a pooled metric.
LibvmafShape == [adm |-> "number", vmaf |-> TRUE, frames |-> "array", pooled |-> "libvmaf"]
ReportShapes ==
    { LibvmafShape,
      [LibvmafShape EXCEPT !.adm = "string"],
      [LibvmafShape EXCEPT !.adm = "null"],
      [LibvmafShape EXCEPT !.vmaf = FALSE],
      [LibvmafShape EXCEPT !.frames = "empty"],
      [LibvmafShape EXCEPT !.pooled = "absent"],
      [LibvmafShape EXCEPT !.pooled = "string"],
      [LibvmafShape EXCEPT !.pooled = "member" ] }

\* a report of shape s for the choices c
ShapedReportText(c, s) ==
    LET admText == CASE s.adm = "number" -> <<"0",".","5">>
                     [] s.adm = "string" -> Quoted(<<"x">>)
                     [] OTHER            -> <<"n","u","l","l">>
        metrics == ObjText(<< <<<<"a","d","m">>, admText>> >>
                           \o Named(c.psnr, KeyPsnr, KeyPsnrY, c.num, OtherNumText)
                           \o Named(c.ssim, KeyMsSsim, KeyFloatMsSsim, c.num, OtherNumText)
                           \o (IF s.vmaf THEN << <<KeyVmaf, <<"9","5",".","5">>>> >>
                                          ELSE <<>>))
        frameText(i) == ObjText(<< <<KeyFrameNumTag, DigitsOfNat(i - 1)>>,
                                   <<KeyMetrics, metrics>> >>)
        nf      == IF s.frames = "array" THEN c.nf ELSE 0
        pooled  == ObjText(Named(c.psnr, KeyPsnr, KeyPsnrY,
                                 PMetricText(c.num), PMetricText(OtherNumText))
                           \o Named(c.ssim, KeyMsSsim, KeyFloatMsSsim,
                                    PMetricText(c.num), PMetricText(OtherNumText))
                           \o << <<KeyVmaf, PMetricText(<<"9","5",".","5">>)>> >>
                           \o (IF s.pooled = "member" THEN << <<<<"n">>, <<"1">>>> >>
                                                       ELSE <<>>))
    IN  ObjText(<< <<KeyVersion, Quoted(<<"2",".","3",".","0">>)>>,
                   <<KeyFrames, ArrText([i \in 1..nf |-> frameText(i)])>> >>
                \o (CASE s.pooled = "absent" -> <<>>
                      [] s.pooled = "string" -> << <<KeyPooledMetrics, Quoted(<<"x">>)>> >>
                      [] OTHER               -> << <<KeyPooledMetrics, pooled>> >>))

\* a report as libvmaf writes it, for the choices c
ReportText(c) == ShapedReportText(c, LibvmafShape)

\* documents that are not such reports
BadReports ==
    << <<>>,
       <<"{","}">>,
       <<"{","\"","f","r","a","m","e","s","\"",":"," ","[","{","\"","f","r","a","m","e","N","u","m","\"",":"," ","0",","," ","\"","m","e","t","r","i","c","s","\"",":"," ","{","\"","p","s","n","r","\"",":"," ","\"","x","\"","}","}","]","}">>,
       <<"{","\"","f","r","a","m","e","s","\"",":"," ","[","{","\"","f","r","a","m","e","N","u","m","\"",":"," ","1",","," ","\"","m","e","t","r","i","c","s","\"",":"," ","{","\"","v","m","a","f","\"",":"," ","2","}","}","]",","," ","\"","p","o","o","l","e","d","_","m","e","t","r","i","c","s","\"",":"," ","n","u","l","l","}">> >>

ReportInputs ==
    [bad : {0}, psnr : Namings, ssim : Namings, num : NumTexts, nf : 1..MaxReportFrames]
    \cup [bad : 1..Len(BadReports), psnr : {"name"}, ssim : {"name"},
          num : {OtherNumText}, nf : {1}]

ReportData(c) == IF c.bad # 0 THEN BadReports[c.bad] ELSE ReportText(c)

\* the result files that GetMetrics reads: every report as libvmaf shapes it,
\* and one report of every other shape per naming of the scores
ShapedReportData(c, s) == IF c.bad # 0 THEN BadReports[c.bad] ELSE ShapedReportText(c, s)
ShapedInputs ==
    { x \in ReportInputs \X ReportShapes :
        x[2] # LibvmafShape => (x[1].bad = 0 /\ x[1].num = <<"3","e","1">>) }

\* the orders in which the maps of a report can be walked, as far as they
\* make a difference: per-frame objects (f) and the pooled object (p)
FieldOrders(c) ==
    [psnr : IF c.psnr = "both" THEN BOOLEAN ELSE {FALSE},
     ssim : IF c.ssim = "both" THEN BOOLEAN ELSE {FALSE}]
MapOrders(c) == [f : FieldOrders(c), p : FieldOrders(c)]

NoReportInput == [bad |-> 1, psnr |-> "name", ssim |-> "name", num |-> OtherNumText, nf |-> 1]

FrameStart(src, dst) ==
    /\ fmSrc = src
    /\ fmDst = dst
    /\ jsonBuf = <<>>
    /\ report = NoReport
    /\ codec = [calls |-> 0, lastOp |-> "none", lastErr |-> ErrNil, src |-> 0,
                bufWhole |-> FALSE, dstBefore |-> dst, input |-> NoReportInput,
                shape |-> LibvmafShape, am |-> NoAggregate]

FrameInit == \E src \in FrameMetricsPool, dst \in ReceiverPool : FrameStart(src, dst)
FrameIdle == FrameStart(NilFrameMetrics, NilFrameMetrics)

\* fmSrc.ToJSON(&jsonBuf)
ToJSON(writeOK, cut) ==
    LET done(o) ==
            /\ jsonBuf' = o.buf
            /\ codec' = [codec EXCEPT !.calls = @ + 1, !.lastOp = "ToJSON", !.lastErr = o.err,
                                      !.bufWhole = (o.err = ErrNil),
                                      !.dstBefore = fmDst]
    IN  /\ codec.calls < MaxCodecCalls
        /\ done(ToJSONOutcome(fmSrc, writeOK, cut))
        /\ UNCHANGED <<fmSrc, fmDst, report, planVars, vqmVars, storeVars, expVars, lwVars, appVars>>

\* fmDst.FromJSON(reader over the data of src)
FromJSON(src, readOK) ==
    LET done(o) ==
            /\ fmDst' = o.fm
            /\ codec' = [codec EXCEPT !.calls = @ + 1, !.lastOp = "FromJSON", !.lastErr = o.err,
                                      !.src = src, !.dstBefore = fmDst]
    IN  /\ codec.calls < MaxCodecCalls
        /\ done(FromJSONOutcome(fmDst, DataOf(src), readOK))
        /\ UNCHANGED <<fmSrc, jsonBuf, report, planVars, vqmVars, storeVars, expVars, lwVars, appVars>>

\* fmDst.FromFfmpegVMAF(reader over the report of c), once per receiver
FromFfmpegVMAF(c, readOK, order) ==
    LET done(o) ==
            /\ fmDst' = o.fm
            /\ report' = o.res
            /\ codec' = [codec EXCEPT !.calls = @ + 1, !.lastOp = "FromFfmpegVMAF",
                                      !.lastErr = o.err, !.input = c,
                                      !.dstBefore = fmDst]
    IN  /\ codec.calls = 0
        /\ done(FromFfmpegVMAFOutcome(fmDst, ReportData(c), readOK, order))
        /\ UNCHANGED <<fmSrc, jsonBuf, planVars, vqmVars, storeVars, expVars, lwVars, appVars>>

\* GetMetrics of a measured FfmpegVMAF whose result file holds the report of
\* shape s for c
GetMetricsOfReport(c, s, order) ==
    LET done(o) ==
            /\ report' = o.res
            /\ codec' = [codec EXCEPT !.calls = @ + 1, !.lastOp = "GetMetrics",
                                      !.lastErr = o.err, !.input = c, !.shape = s,
                                      !.am = o.am, !.dstBefore = fmDst]
    IN  /\ codec.calls = 0
        /\ done(GetMetricsOutcome(ShapedReportData(c, s), order))
        /\ UNCHANGED <<fmSrc, fmDst, jsonBuf, planVars, vqmVars, storeVars, expVars, lwVars, appVars>>

(***************************************************************************)
(* Scheme.Expand and NewPlan applied to the schemes and inputs of the model *)
(***************************************************************************)
MaxSchemes == 2     \* schemes of a PlanConfig
MaxInputs  == 2     \* source files of a PlanConfig

\* templates with one, several and no placeholders, with a one-part, a
\* two-part and no extension after %OUTPUT%; a name that holds a placeholder
ExpandSchemes ==
    { SchemeList[1], SchemeList[2],
      [Name       |-> <<"n">>,
       CommandTpl |-> <<"x"," ","-","y">>],
      [Name       |-> <<"d">>,
       CommandTpl |-> inputPlaceholder \o <<" ">> \o inputPlaceholder \o <<" ">>
                      \o outputPlaceholder \o <<" ">> \o outputPlaceholder \o <<".","k">>],
      [Name       |-> <<"q">> \o logFilePlaceholder,
       CommandTpl |-> <<"c"," ">> \o outputPlaceholder \o <<".","m">>] }

\* source paths: plain, in a directory and with a space, without extension,
\* and one whose name holds a placeholder
ExpandInputs ==
    { InputList[1], InputList[2], InputList[3],
      <<"s">> \o outputPlaceholder \o <<".","m">> }

\* the configurations NewPlan is applied to: lists of the plain schemes and inputs
ExpandConfigs ==
    [Schemes : SeqsUpTo({ SchemeList[i] : i \in DOMAIN SchemeList }, MaxSchemes),
     Inputs  : SeqsUpTo({ InputList[i] : i \in DOMAIN InputList }, MaxInputs)]

\* one call of scheme.Expand(inputs, outDir)
ExpandCall(scheme, inputs, outDir, cwd) ==
    /\ expansion.op = "none"
    /\ expansion' = [op |-> "Expand", schemes |-> <<scheme>>, inputs |-> inputs,
                     outDir |-> outDir, cwdOK |-> cwd.ok,
                     jobs |-> Expand(scheme, inputs, outDir, cwd)]
    /\ UNCHANGED <<planVars, vqmVars, storeVars, frameVars, lwVars, appVars>>

\* one call of NewPlan(pcfg, outDir)
NewPlanCall(pcfg, outDir, cwd) ==
    /\ expansion.op = "none"
    /\ expansion' = [op |-> "NewPlan", schemes |-> pcfg.Schemes, inputs |-> pcfg.Inputs,
                     outDir |-> outDir, cwdOK |-> cwd.ok,
                     jobs |-> NewPlan(pcfg, outDir, cwd).Commands]
    /\ UNCHANGED <<planVars, vqmVars, storeVars, frameVars, lwVars, appVars>>

(***************************************************************************)
(* Specifications                                                          *)
(***************************************************************************)
PlanStart(p) ==
    /\ plan = p
    /\ runState = "none"
    /\ runs = 0
    /\ jobIdx = 1
    /\ result = <<>>
    /\ runError = ErrNil
    /\ jobEnv = <<>>
    /\ outDirHist = NoMkdir

\* a Plan as NewPlan builds it from any of the configurations
PlanInit ==
    \E cfg \in PlanConfigs, outDir \in OutDirPool, cwd \in CwdOutcomes :
        PlanStart(NewPlan(cfg, outDir, cwd))

PlanIdle ==
    PlanStart(NewPlan([Schemes |-> <<>>, Inputs |-> <<>>], <<"o">>, [ok |-> TRUE, dir |-> <<"/","w">>]))

VqmIdle == VqmInit /\ vqt.impl = "FfmpegVMAF"

NoExpansion == [op |-> "none", schemes |-> <<>>, inputs |-> <<>>, outDir |-> <<>>,
                cwdOK |-> TRUE, jobs |-> <<>>]
ExpIdle == expansion = NoExpansion

(***************************************************************************)
(* App.encode: the plan is run, every RunResult is inserted into the       *)
(* metric store, then every stored record is measured and updated          *)
(***************************************************************************)
MaxRecords == 3     \* RunResults of the plan that the stage runs

ErrPlanRunWrap == "plan run"
ErrVQMFailed   == "VQM calculations had errors, see log for reasons"

\* the Record inserted for RunResult k, and the same with the VQ metrics set
EncodedRecord(k) == [job |-> k, vq |-> "none"]
WithVQMetrics(r) == [r EXCEPT !.vq = "set"]

\* the record that the loop body leaves in the store for an outcome
MeasuredRecord(r, outcome) == IF outcome = "ok" THEN WithVQMetrics(r) ELSE r

\* What the environment does to the measurement of one record: whether
\* NewFfmpegVMAF can build its command, the probes and the tool of Measure,
\* and what GetMetrics finds in the result file.
VqmEnvs == [newOK : BOOLEAN, measure : MeasureEnvs, file : ResultFiles]

\* the body of the loop over the ids for one record: "ok", or the step that
\* failed, or "panic" when GetMetrics does not return
VqmOutcome(env) ==
    LET got(a) ==
            IF a.err = ErrZeroLength THEN "panic"
            ELSE IF a.err # ErrNil THEN "GetMetrics failed"
            ELSE "ok"
        measured(m) ==
            IF m.err # ErrNil THEN "Measure failed"
            ELSE got(AccessorOutcome(m.f, env.file))
    IN  IF ~env.newOK THEN "NewFfmpegVMAF failed"
        ELSE measured(MeasureOutcome(NewFfmpegVMAF("FfmpegVMAF"), env.measure))

\* the stage before plan.Run returns n results, with or without an error
AppStart(n, planOK) ==
    [pc |-> "run", n |-> n, planOK |-> planOK, records |-> <<>>, stored |-> <<>>,
     todo |-> {}, outcome |-> <<>>, vqmFailed |-> FALSE, err |-> ErrNil]

NoApp == AppStart(0, TRUE)
AppInit == \E n \in 0..MaxRecords, planOK \in BOOLEAN : app = AppStart(n, planOK)
AppIdle == app = NoApp

\* plan.Run has returned: its error is returned, or its results are inserted
\* under the ids 0..n-1 and GetIDs collects them
EncodeStore ==
    LET recs == [id \in 0..(app.n - 1) |-> EncodedRecord(id + 1)]
    IN  /\ app.pc = "run"
        /\ app' = IF ~app.planOK
                  THEN [app EXCEPT !.pc = "returned", !.err = ErrPlanRunWrap]
                  ELSE [app EXCEPT !.pc = "vqm", !.records = recs, !.stored = recs,
                                   !.todo = DOMAIN recs,
                                   !.outcome = [id \in DOMAIN recs |-> "none"]]
        /\ UNCHANGED <<planVars, vqmVars, storeVars, frameVars, expVars, lwVars>>

\* one iteration of the loop over the ids, which a map iteration hands out
\* in no defined order
EncodeMeasure(id, env) ==
    LET done(o) ==
            app' = [app EXCEPT
                      !.pc = IF o = "panic" THEN "panicked" ELSE @,
                      !.records[id] = MeasuredRecord(@, o),
                      !.todo = @ \ {id},
                      !.outcome[id] = o,
                      !.vqmFailed = @ \/ o \notin {"ok", "panic"}]
    IN  /\ app.pc = "vqm"
        /\ id \in app.todo
        /\ done(VqmOutcome(env))
        /\ UNCHANGED <<planVars, vqmVars, storeVars, frameVars, expVars, lwVars>>

\* the loop is over: the stage reports
EncodeEnd ==
    /\ app.pc = "vqm"
    /\ app.todo = {}
    /\ app' = [app EXCEPT !.pc = "returned",
                          !.err = IF app.vqmFailed THEN ErrVQMFailed ELSE ErrNil]
    /\ UNCHANGED <<planVars, vqmVars, storeVars, frameVars, expVars, lwVars>>

\* ---- the plan runner ----
InitPlan == PlanInit /\ VqmIdle /\ StoreInit /\ FrameIdle /\ ExpIdle /\ LwIdle /\ AppIdle
NextPlan ==
    \/ \E mkdirOK \in BOOLEAN : RunBegin(mkdirOK)
    \/ \E env \in JobEnvs : RunJob(env)
    \/ RunEnd
SpecPlan == InitPlan /\ [][NextPlan]_vars

\* ---- the measuring tool ----
InitVQM == PlanIdle /\ VqmInit /\ StoreInit /\ FrameIdle /\ ExpIdle /\ LwIdle /\ AppIdle
NextVQM ==
    \/ \E env \in MeasureEnvs : Measure(env)
    \/ \E file \in ResultFiles : GetMetrics(file)
SpecVQM == InitVQM /\ [][NextVQM]_vars

\* ---- the store and its concurrent callers ----
InitStore == PlanIdle /\ VqmIdle /\ StoreInit /\ FrameIdle /\ ExpIdle /\ LwIdle /\ AppIdle
NextStore ==
    \/ \E p \in Procs, op \in Writers \cup Readers :
          \E id \in IdArgs(op), rec \in RecArgs(op) : Call(p, op, id, rec)
    \/ \E p \in Procs : Lock(p)
    \/ \E p \in Procs : RLock(p)
    \/ \E p \in Procs : InsertStore1(p)
    \/ \E p \in Procs : InsertStore2(p)
    \/ \E p \in Procs : InsertID(p)
    \/ \E p \in Procs : InsertIncr(p)
    \/ \E p \in Procs : UpdateCheck(p)
    \/ \E p \in Procs : UpdateStore1(p)
    \/ \E p \in Procs : UpdateStore2(p)
    \/ \E p \in Procs : DeleteCheck(p)
    \/ \E p \in Procs : DeleteDelete(p)
    \/ \E p \in Procs : Read(p)
    \/ \E p \in Procs : Unlock(p)
    \/ \E p \in Procs : RUnlock(p)
SpecStore == InitStore /\ [][NextStore]_vars

\* ---- callers that delete from a Store that holds records ----
InitDelete ==
    /\ PlanIdle /\ VqmIdle /\ FrameIdle /\ ExpIdle /\ LwIdle /\ AppIdle
    /\ \E recs \in SeqsUpTo(RecordPool, MaxStored) : recs # <<>> /\ StoreAfterInserts(recs)
NextDelete ==
    \/ \E p \in Procs, id \in IdArgs("Delete") : Call(p, "Delete", id, ZeroRecord)
    \/ \E p \in Procs : Lock(p)
    \/ \E p \in Procs : DeleteCheck(p)
    \/ \E p \in Procs : DeleteDelete(p)
    \/ \E p \in Procs : Unlock(p)
SpecDelete == InitDelete /\ [][NextDelete]_vars

\* ---- the encode stage ----
InitApp == PlanIdle /\ VqmIdle /\ StoreInit /\ FrameIdle /\ ExpIdle /\ LwIdle /\ AppInit
NextApp ==
    \/ EncodeStore
    \/ \E id \in 0..(MaxRecords - 1), env \in VqmEnvs : EncodeMeasure(id, env)
    \/ EncodeEnd
SpecApp == InitApp /\ [][NextApp]_vars

\* ---- the limited writer ----
InitWriter == PlanIdle /\ VqmIdle /\ StoreInit /\ FrameIdle /\ ExpIdle /\ LwInit /\ AppIdle
NextWriter == \E b \in 0..(MaxLimit + 1) : LwWrite(b)
SpecWriter == InitWriter /\ [][NextWriter]_vars

\* ---- the scheme expander ----
InitExpand == PlanIdle /\ VqmIdle /\ StoreInit /\ FrameIdle /\ ExpIdle /\ LwIdle /\ AppIdle
NextExpand ==
    \/ \E scheme \in ExpandSchemes, inputs \in SeqsUpTo(ExpandInputs, MaxInputs),
          outDir \in OutDirPool, cwd \in CwdOutcomes :
            ExpandCall(scheme, inputs, outDir, cwd)
    \/ \E pcfg \in ExpandConfigs, outDir \in OutDirPool, cwd \in CwdOutcomes :
            NewPlanCall(pcfg, outDir, cwd)
SpecExpand == InitExpand /\ [][NextExpand]_vars

\* ---- the frame metrics codec ----
InitFrame == PlanIdle /\ VqmIdle /\ StoreInit /\ FrameInit /\ ExpIdle /\ LwIdle /\ AppIdle
NextFrame ==
    \/ \E writeOK \in BOOLEAN :
          \E cut \in (IF writeOK THEN {0} ELSE {0, 3}) : ToJSON(writeOK, cut)
    \/ \E src \in 0..Len(JSONDocs) :
          \E readOK \in (IF src = 0 THEN BOOLEAN ELSE {TRUE}) : FromJSON(src, readOK)
SpecFrame == InitFrame /\ [][NextFrame]_vars

\* ---- the report decoder ----
InitReport ==
    /\ PlanIdle /\ VqmIdle /\ StoreInit /\ ExpIdle /\ LwIdle /\ AppIdle
    /\ \E dst \in ReceiverPool : FrameStart(NilFrameMetrics, dst)
NextReport ==
    \/ \E c \in ReportInputs :
          \E readOK \in (IF c.bad = 1 THEN BOOLEAN ELSE {TRUE}), order \in MapOrders(c) :
              FromFfmpegVMAF(c, readOK, order)
    \/ \E x \in ShapedInputs : \E order \in MapOrders(x[1]) :
          GetMetricsOfReport(x[1], x[2], order)
SpecReport == InitReport /\ [][NextReport]_vars

(***************************************************************************)
(* Properties of the plan runner (SpecPlan)                                *)
(***************************************************************************)
Jobs == 1..NJobs

\* the five descriptor fields of job i are those of RunResults[i]
CarriesDescriptor(i) ==
    /\ result[i].EncoderCmd.Name = plan.Commands[i].Name
    /\ result[i].EncoderCmd.SourceFile = plan.Commands[i].SourceFile
    /\ result[i].EncoderCmd.CompressedFile = plan.Commands[i].CompressedFile
    /\ result[i].EncoderCmd.OutputFile = plan.Commands[i].OutputFile
    /\ result[i].EncoderCmd.Cmd = plan.Commands[i].Cmd

\* ensureOutDir failed in the call that returned
OutDirFailed == runState = "returned" /\ ~plan.outDirCreated

\* job i ran as a subprocess
Ran(i) == jobEnv[i].attempted /\ jobEnv[i].createOK /\ jobEnv[i].startOK

\* nothing went wrong with job i
JobSucceeded(i) ==
    Ran(i) /\ jobEnv[i].exit = 0 /\ ~jobEnv[i].overCap /\ jobEnv[i].probeOK

HasError(i, e) == \E k \in 1..Len(result[i].Errors) : result[i].Errors[k] = e

\* C1 as stated: whenever Plan.Run has returned, RunResults has one entry per
\* job and entry i carries the descriptor of Commands[i], also when the output
\* directory could not be created.
C1_AlignedAlways ==
    runState = "returned" =>
        /\ Len(result) = NJobs
        /\ \A i \in Jobs : CarriesDescriptor(i)

\* C1 amended: whenever Plan.Run has returned, RunResults has one entry per
\* job; entry i carries the descriptor of Commands[i] whenever the output
\* directory was ensured, whatever happened to the jobs; when creating the
\* output directory failed every entry is the zero RunResult.
C1_AlignedWhenOutDirEnsured ==
    runState = "returned" =>
        /\ Len(result) = NJobs
        /\ plan.outDirCreated => \A i \in Jobs : CarriesDescriptor(i)
        /\ OutDirFailed => \A i \in Jobs : result[i] = ZeroRunResult

\* a run of two jobs or more returned with a failed and a clean job, both
\* carrying their descriptors
C1_Witness ==
    /\ runState = "returned"
    /\ NJobs >= 2
    /\ \E i, j \in Jobs :
          /\ result[i].Errors # <<>>
          /\ result[j].Errors = <<>>
          /\ CarriesDescriptor(i) /\ CarriesDescriptor(j)
          /\ result[i].EncoderCmd # result[j].EncoderCmd

\* C2: once a call of Plan.Run that got past ensureOutDir is over, by
\* returning or by crashing, every job of the plan was attempted, whatever
\* errors the earlier jobs accumulated; and in a returned run a job with which
\* nothing went wrong has an empty Errors list.
C2_SiblingsAlwaysRun ==
    /\ (runState = "panicked" \/ (runState = "returned" /\ plan.outDirCreated)) =>
          \A i \in Jobs : jobEnv[i].attempted
    /\ (runState = "returned" /\ plan.outDirCreated) =>
          \A i \in Jobs : JobSucceeded(i) => result[i].Errors = <<>>

\* C3 as stated: the returned error is nil exactly when every RunResult has an
\* empty Errors list.
C3_NilIffNoJobErrors ==
    runState = "returned" =>
        (runError = ErrNil <=> \A i \in Jobs : result[i].Errors = <<>>)

\* C3 amended: the returned error is nil exactly when the output directory
\* was ensured and every RunResult has an empty Errors list.
C3_NilIffEnsuredAndNoJobErrors ==
    runState = "returned" =>
        (runError = ErrNil <=>
            (plan.outDirCreated /\ \A i \in Jobs : result[i].Errors = <<>>))

\* a run of two jobs or more returned an error although its last job is clean
C3_Witness ==
    /\ runState = "returned"
    /\ NJobs >= 2
    /\ runError = ErrPlanRun
    /\ result[1].Errors # <<>>
    /\ result[NJobs].Errors = <<>>

\* C4 as stated: a job whose subprocess ran and wrote more than the cap has no
\* overflow entry in Errors, has the exit code it would have had without the
\* cap, and (its metadata probe aside) has errors exactly when that exit code
\* is not zero.
C4_OverflowLeavesOutcome ==
    \A i \in 1..Len(result) :
        (Ran(i) /\ jobEnv[i].overCap) =>
            /\ ~HasError(i, ErrLimitedWriterOverflow)
            /\ result[i].ProcessState = <<jobEnv[i].exit>>
            /\ jobEnv[i].probeOK => (result[i].Errors = <<>> <=> jobEnv[i].exit = 0)

\* C4 amended: a job whose subprocess ran and wrote more than the cap always
\* has a first entry in Errors that comes from the subprocess run: the
\* overflow error when the subprocess exits 0, the exit error otherwise (its
\* exit code then is its own or that of SIGPIPE); the stored output never
\* exceeds the cap.  A job that stayed within the cap fails on its exit code
\* alone.
C4_OverflowFailsJob ==
    \A i \in 1..Len(result) :
        /\ (Ran(i) /\ jobEnv[i].overCap) =>
              /\ result[i].Errors # <<>>
              /\ result[i].Errors[1] =
                    (IF result[i].ProcessState = <<0>>
                     THEN ErrLimitedWriterOverflow ELSE ErrExit)
              /\ result[i].ProcessState \in {<<jobEnv[i].exit>>, <<ExitSIGPIPE>>}
              /\ result[i].stderr <= outputBufferSize
        /\ (Ran(i) /\ ~jobEnv[i].overCap /\ jobEnv[i].probeOK) =>
              /\ result[i].ProcessState = <<jobEnv[i].exit>>
              /\ (result[i].Errors = <<>> <=> jobEnv[i].exit = 0)

\* a run returned an error because a subprocess that exited 0 overflowed the
\* cap while the other job of the run is clean
C4_Witness ==
    /\ runState = "returned"
    /\ runError = ErrPlanRun
    /\ \E i, j \in Jobs :
          /\ Ran(i) /\ jobEnv[i].overCap /\ jobEnv[i].exit = 0 /\ jobEnv[i].probeOK
          /\ result[i].ProcessState = <<0>>
          /\ result[i].Errors = <<ErrLimitedWriterOverflow>>
          /\ JobSucceeded(j) /\ result[j].Errors = <<>>

(***************************************************************************)
(* Properties of the measuring tool (SpecVQM)                              *)
(***************************************************************************)
DependsErrors == {ErrGetMetricsDepends, ErrGetResultDepends}

\* C5 as stated: every invocation of Measure() after the first one on the
\* instance fails with "Measure() already executed", whatever the first one
\* returned.
C5_SecondMeasureAlwaysFails ==
    (vqtHist.lastOp = "Measure" /\ vqtHist.measureCalls >= 2) =>
        vqtHist.lastErr = ErrAlreadyExecuted

\* C5 amended: Measure() succeeds at most once per instance; every invocation
\* after the one that succeeded fails with "Measure() already executed", and
\* an invocation made while none has succeeded yet never does (after a failed
\* Measure() the instance is measured again).
C5_MeasureAfterSuccessFails ==
    /\ vqtHist.okMeasures <= 1
    /\ vqtHist.lastOp = "Measure" =>
          (vqtHist.lastErr = ErrAlreadyExecuted <=> vqtHist.okBefore >= 1)

\* Measure() was invoked again after it had succeeded, and was refused
C5_Witness ==
    /\ vqtHist.lastOp = "Measure"
    /\ vqtHist.measureCalls >= 2
    /\ vqtHist.okBefore = 1
    /\ vqtHist.lastErr = ErrAlreadyExecuted

\* C6: a result accessor called while no Measure() of the instance has
\* returned without error returns a "depends on Measure() called first"
\* error and does not open the result file.
C6_AccessorNeedsMeasure ==
    (vqtHist.lastOp = "GetMetrics" /\ vqtHist.okBefore = 0) =>
        /\ vqtHist.lastErr \in DependsErrors
        /\ vqtHist.opens = vqtHist.opensBefore

\* the accessor was refused after a Measure() that ran the tool and failed
C6_Witness ==
    /\ vqtHist.lastOp = "GetMetrics"
    /\ vqtHist.okBefore = 0
    /\ vqtHist.toolRuns >= 1
    /\ vqtHist.lastErr \in DependsErrors
    /\ vqtHist.opens = 0

(***************************************************************************)
(* Properties of the store (SpecStore)                                     *)
(***************************************************************************)
Quiescent == \A p \in Procs : pc[p] = "idle"

InsertedIDs == { hist.insLog[k].id : k \in 1..Len(hist.insLog) }

\* C7: the ids returned by Insert, in the order in which the Inserts
\* returned, are strictly increasing, whatever Updates and Deletes happen in
\* between.
C7_InsertIDsIncrease ==
    \A i, j \in 1..Len(hist.insLog) :
        i < j => hist.insLog[i].id < hist.insLog[j].id

\* an Insert returned a fresh id after a record had been deleted
C7_Witness ==
    /\ Len(hist.insLog) >= 2
    /\ hist.insLog[Len(hist.insLog)].dels >= 1
    /\ hist.insLog[Len(hist.insLog)].id \notin hist.deleted
    /\ hist.insLog[1].id \in hist.deleted

\* C8: when no call is in flight, the live ids are the ids that Insert
\* returned less those that Delete removed, every Insert returned an id of its
\* own, and GetIDs yields as many ids as there were Inserts minus successful
\* Deletes.
C8_LiveIDsCount ==
    Quiescent =>
        /\ Cardinality(InsertedIDs) = Len(hist.insLog)
        /\ GetIDsOf(store) = InsertedIDs \ hist.deleted
        /\ Cardinality(GetIDsOf(store)) = Len(hist.insLog) - hist.nDel

\* two Inserts and a Delete have completed
C8_Witness ==
    /\ Quiescent
    /\ Len(hist.insLog) >= 2
    /\ hist.nDel >= 1
    /\ Cardinality(GetIDsOf(store)) = 1

\* C9: when callers have only inserted, concurrently or not, and all have
\* returned, the returned ids are pairwise distinct and the Store holds
\* exactly one record per Insert, equal to the record that Insert was given.
C9_ConcurrentInserts ==
    (Quiescent /\ hist.ops \subseteq {"Insert"}) =>
        /\ \A i, j \in 1..Len(hist.insLog) :
              i # j => hist.insLog[i].id # hist.insLog[j].id
        /\ Cardinality(Live(store)) = hist.calls
        /\ Len(hist.insLog) = hist.calls
        /\ \A k \in 1..Len(hist.insLog) :
              /\ hist.insLog[k].id \in Live(store)
              /\ store.records[hist.insLog[k].id] = hist.insLog[k].rec

\* every caller made one Insert, all of them in flight at the same time, and
\* all have returned
C9_Witness ==
    /\ Quiescent
    /\ hist.ops = {"Insert"}
    /\ hist.calls = NProcs
    /\ hist.maxConc = NProcs
    /\ Len(hist.insLog) = NProcs

UpdatesOf(id) == { u \in hist.updLog : u.id = id }

\* C10: when no Delete was called and all calls have returned, no Update of
\* an id that was live when the Update was called returned an error, and the
\* record of every updated id is the record passed to one of its Updates.
C10_ConcurrentUpdates ==
    (Quiescent /\ "Delete" \notin hist.ops) =>
        /\ \A u \in hist.updLog : u.live => u.err = ErrNil
        /\ \A u \in hist.updLog : u.err = ErrNil =>
              /\ u.id \in Live(store)
              /\ store.records[u.id] \in { v.rec : v \in UpdatesOf(u.id) }

\* two Updates of one live id with different records were in flight together
\* and both have returned without error
C10_Witness ==
    /\ Quiescent
    /\ hist.updConc
    /\ "Delete" \notin hist.ops
    /\ \E u, v \in hist.updLog :
          /\ u.id = v.id /\ u.rec # v.rec
          /\ u.live /\ v.live
          /\ u.err = ErrNil /\ v.err = ErrNil

\* the call in flight of caller p
CallOf(p) == loc[p]

\* C11: Update and Delete called with an id that is not live when the call
\* takes the lock return ErrRecordNotFound and at no point of the call change
\* the records or the next-id counter (a failed Update does not create the
\* record); Get of such an id returns ErrRecordNotFound; Exists returns no
\* error, and false for such an id; Get and Exists leave the Store as it was.
C11_NotFoundLeavesStore ==
    \A p \in Procs :
        /\ (mu.w = p /\ CallOf(p).op \in {"Update", "Delete"}
                     /\ CallOf(p).id \notin Live(CallOf(p).snap)) =>
              store = CallOf(p).snap
        /\ (pc[p] = "unlock" /\ CallOf(p).op \in {"Update", "Delete"}
                             /\ CallOf(p).id \notin Live(CallOf(p).snap)) =>
              CallOf(p).err = ErrRecordNotFound
        /\ (pc[p] = "runlock" /\ CallOf(p).op = "Get"
                              /\ CallOf(p).id \notin Live(CallOf(p).snap)) =>
              /\ CallOf(p).err = ErrRecordNotFound
              /\ store = CallOf(p).snap
        /\ (pc[p] = "runlock" /\ CallOf(p).op = "Exists") =>
              /\ CallOf(p).err = ErrNil
              /\ CallOf(p).id \notin Live(CallOf(p).snap) => CallOf(p).out = <<FALSE>>
              /\ store = CallOf(p).snap

\* an Update of an id that was deleted before is about to return the
\* not-found error, and the Store holds no record
C11_Witness ==
    \E p \in Procs :
        /\ pc[p] = "unlock"
        /\ CallOf(p).op = "Update"
        /\ CallOf(p).id \in hist.deleted
        /\ CallOf(p).err = ErrRecordNotFound
        /\ store.records = <<>>
        /\ store.next = 1

\* C12: the Store refines the reference map of the history.  Whenever no
\* writer is inside, the records are exactly the records given to the latest
\* successful Insert or Update of every id that was not deleted since, and
\* next counts the Inserts; a Get that returns for a live id returns that
\* record; once a Delete of an id has succeeded, Exists returns false and Get
\* fails for it ever after.
C12_RefinesReferenceMap ==
    /\ mu.w = 0 =>
          /\ store.records = hist.ref
          /\ store.next = Len(hist.insLog)
    /\ hist.deleted \cap DOMAIN hist.ref = {}
    /\ \A p \in Procs : pc[p] = "runlock" =>
          /\ (CallOf(p).op = "Get" /\ CallOf(p).id \in DOMAIN hist.ref) =>
                /\ CallOf(p).err = ErrNil
                /\ CallOf(p).out = <<hist.ref[CallOf(p).id]>>
          /\ (CallOf(p).op = "Get" /\ CallOf(p).id \in hist.deleted) =>
                CallOf(p).err = ErrRecordNotFound
          /\ CallOf(p).op = "Exists" =>
                CallOf(p).out = <<CallOf(p).id \in DOMAIN hist.ref>>

\* a Get is about to return the record of an Update that replaced the record
\* the Insert of that id was given
C12_Witness ==
    \E p \in Procs :
        /\ pc[p] = "runlock"
        /\ CallOf(p).op = "Get"
        /\ CallOf(p).err = ErrNil
        /\ \E k \in 1..Len(hist.insLog) :
              /\ hist.insLog[k].id = CallOf(p).id
              /\ <<hist.insLog[k].rec>> # CallOf(p).out
        /\ \E u \in hist.updLog :
              /\ u.id = CallOf(p).id /\ u.err = ErrNil /\ <<u.rec>> = CallOf(p).out

(***************************************************************************)
(* Properties of the frame metrics codec (SpecFrame)                       *)
(***************************************************************************)
\* C13: when FromJSON has decoded, into whatever receiver, the document that
\* ToJSON wrote for a non-empty FrameMetrics, it returned no error and the
\* receiver holds the elements of the original, each equal to its original
\* and in the same order.
C13_RoundTrip ==
    (/\ codec.lastOp = "FromJSON" /\ codec.src = 0 /\ codec.bufWhole
     /\ codec.lastErr # ErrFromJSONRead
     /\ fmSrc.elems # <<>>) =>
        /\ codec.lastErr = ErrNil
        /\ Len(fmDst.elems) = Len(fmSrc.elems)
        /\ \A k \in 1..Len(fmSrc.elems) : fmDst.elems[k] = fmSrc.elems[k]

\* two different frames written by ToJSON were decoded into a receiver that
\* held three other frames before
C13_Witness ==
    /\ codec.lastOp = "FromJSON" /\ codec.src = 0 /\ codec.bufWhole
    /\ codec.lastErr = ErrNil
    /\ Len(fmSrc.elems) = 2
    /\ fmSrc.elems[1] # fmSrc.elems[2]
    /\ Len(codec.dstBefore.elems) = 3
    /\ fmDst.elems = fmSrc.elems

\* C14: FromJSON of zero-length input returns an error; FromJSON of the
\* document `[]` (with or without white space around the brackets) returns
\* no error and leaves an empty sequence in the receiver, whatever it held.
C14_EmptyInputVsEmptyArray ==
    (codec.lastOp = "FromJSON" /\ codec.lastErr # ErrFromJSONRead) =>
        /\ DataOf(codec.src) = <<>> => codec.lastErr # ErrNil
        /\ DataOf(codec.src) \in {<<"[", "]">>, <<" ", "[", " ", "]", "\n">>} =>
              /\ codec.lastErr = ErrNil
              /\ fmDst.elems = <<>>

\* `[]` was decoded into a receiver that held frames
C14_Witness ==
    /\ codec.lastOp = "FromJSON"
    /\ DataOf(codec.src) = <<"[", "]">>
    /\ codec.dstBefore.elems # <<>>
    /\ codec.lastErr = ErrNil
    /\ fmDst.elems = <<>>

(***************************************************************************)
(* Properties of the report decoder (SpecReport)                           *)
(***************************************************************************)
\* the report of c with every score under its unsuffixed name
Unsuffixed(c) == [c EXCEPT !.psnr = "name", !.ssim = "name"]

NoOrder == [f |-> [psnr |-> FALSE, ssim |-> FALSE], p |-> [psnr |-> FALSE, ssim |-> FALSE]]

\* C15: a report whose metric objects, per-frame and pooled, name psnr and
\* ms_ssim each by one name, alias or not, decodes without error to the
\* canonical fields that the report with the unsuffixed names and the same
\* numbers decodes to, and these are the numbers of the report.
C15_AliasDecodesAsName ==
    (/\ codec.lastOp = "FromFfmpegVMAF" /\ codec.lastErr # ErrFromFfmpegVMAFRead
     /\ codec.input.bad = 0
     /\ codec.input.psnr # "both" /\ codec.input.ssim # "both") =>
        LET same == FromFfmpegVMAFOutcome(codec.dstBefore,
                                          ReportText(Unsuffixed(codec.input)), TRUE, NoOrder)
            num  == ParseFloat(codec.input.num).f
        IN  /\ codec.lastErr = ErrNil
            /\ report = same.res
            /\ fmDst = same.fm
            /\ Len(report.Frames) = codec.input.nf
            /\ \A i \in 1..Len(report.Frames) :
                  /\ report.Frames[i].Metrics.PSNR = num
                  /\ report.Frames[i].Metrics.MS_SSIM = num
            /\ report.PooledMetrics.PSNR.Mean = num
            /\ report.PooledMetrics.MS_SSIM.HarmonicMean = num

\* a report that names both scores by their aliases was decoded
C15_Witness ==
    /\ codec.lastOp = "FromFfmpegVMAF"
    /\ codec.lastErr = ErrNil
    /\ codec.input.bad = 0
    /\ codec.input.psnr = "alias" /\ codec.input.ssim = "alias"
    /\ Len(report.Frames) = 2
    /\ report.Frames[2].Metrics.PSNR = Float(FALSE, <<"4","0","2","5">>, 2)
    /\ report.PooledMetrics.MS_SSIM.Min = Float(FALSE, <<"4","0","2","5">>, 2)
    /\ Len(fmDst.elems) = Len(codec.dstBefore.elems) + 2

(***************************************************************************)
(* Properties of the scheme expander (SpecExpand)                          *)
(***************************************************************************)
NSchemes == Len(expansion.schemes)
NInputs  == Len(expansion.inputs)

\* job k (counted from 0) is built from scheme k div |Inputs| and input
\* k mod |Inputs| (both counted from 0)
BuiltFromPair(k) ==
    /\ expansion.jobs[k + 1].Name = expansion.schemes[(k \div NInputs) + 1].Name
    /\ expansion.jobs[k + 1].SourceFile = expansion.inputs[(k % NInputs) + 1]

SchemeOfJob(j) == expansion.schemes[((j - 1) \div NInputs) + 1]

\* end (exclusive) of the run of extensions `.word.word...` starting at i
RECURSIVE ExtRunEnd(_, _)
ExtRunEnd(s, i) ==
    IF i <= Len(s) /\ s[i] = "." /\ WordEnd(s, i + 1) > i + 1
    THEN ExtRunEnd(s, WordEnd(s, i + 1))
    ELSE i

\* the extension written in the template right after the %OUTPUT% placeholder
LiteralExt(tpl) ==
    LET at == IndexOf(tpl, outputPlaceholder)
        from == at + Len(outputPlaceholder)
    IN  IF at = 0 THEN <<>> ELSE SubSeq(tpl, from, ExtRunEnd(tpl, from) - 1)

\* outDir/normalize(basename without extension)_normalize(Name)
NameBase(job) ==
    LET baseName == PathBase(job.SourceFile)
        stem     == SubSeq(baseName, 1, Len(baseName) - Len(FilepathExt(baseName)))
    IN  expansion.outDir \o <<"/">> \o normalize(stem) \o <<"_">> \o normalize(job.Name)

\* C17 as stated: every job's OutputFile, LogFile and CompressedFile are
\* base.out, base.log and base followed by the literal extension that
\* follows %OUTPUT% in the template, for one and the same base
\* outDir/normalize(source basename without extension)_normalize(Name).
C17_FileNamesShareBase ==
    \A j \in 1..Len(expansion.jobs) :
        LET job == expansion.jobs[j]
        IN  /\ job.OutputFile = NameBase(job) \o <<".","o","u","t">>
            /\ job.LogFile = NameBase(job) \o <<".","l","o","g">>
            /\ job.CompressedFile = NameBase(job) \o LiteralExt(SchemeOfJob(j).CommandTpl)

\* what of C17 the code keeps: OutputFile and LogFile are base.out and
\* base.log, and CompressedFile is base followed by the literal extension
\* when that extension has at most one part
C17_FileNamesShareBaseOnePart ==
    \A j \in 1..Len(expansion.jobs) :
        LET job == expansion.jobs[j]
            ext == LiteralExt(SchemeOfJob(j).CommandTpl)
        IN  /\ job.OutputFile = NameBase(job) \o <<".","o","u","t">>
            /\ job.LogFile = NameBase(job) \o <<".","l","o","g">>
            /\ (\A i \in 2..Len(ext) : ext[i] # ".")
                  => job.CompressedFile = NameBase(job) \o ext

\* a job of a template with a two-part extension after %OUTPUT%, whose
\* CompressedFile carries the last part only
C17_TwoPartExtension ==
    \E j \in 1..Len(expansion.jobs) :
        /\ LiteralExt(SchemeOfJob(j).CommandTpl) = <<".","t",".","g">>
        /\ expansion.jobs[j].CompressedFile = NameBase(expansion.jobs[j]) \o <<".","g">>

\* the template from position i on with every placeholder occurrence in it
\* replaced: %INPUT% by src, %OUTPUT% by base, %LOGFILE% by log
RECURSIVE SubstituteFrom(_, _, _, _, _)
SubstituteFrom(tpl, i, src, base, log) ==
    IF i > Len(tpl) THEN <<>>
    ELSE IF HasPrefixAt(tpl, inputPlaceholder, i)
         THEN src \o SubstituteFrom(tpl, i + Len(inputPlaceholder), src, base, log)
    ELSE IF HasPrefixAt(tpl, outputPlaceholder, i)
         THEN base \o SubstituteFrom(tpl, i + Len(outputPlaceholder), src, base, log)
    ELSE IF HasPrefixAt(tpl, logFilePlaceholder, i)
         THEN log \o SubstituteFrom(tpl, i + Len(logFilePlaceholder), src, base, log)
    ELSE <<tpl[i]>> \o SubstituteFrom(tpl, i + 1, src, base, log)

\* the text holds the %OUTPUT% or the %LOGFILE% placeholder
HoldsPlaceholder(text) ==
    IndexOf(text, outputPlaceholder) # 0 \/ IndexOf(text, logFilePlaceholder) # 0

\* C18 as stated: a job's Cmd is the scheme's template with every occurrence
\* of %INPUT% replaced by the source path, of %OUTPUT% by the output base and
\* of %LOGFILE% by the log file path, for any source path and scheme name; a
\* template without a placeholder is left as it is.
C18_CmdIsTemplateSubstituted ==
    \A j \in 1..Len(expansion.jobs) :
        LET job == expansion.jobs[j]
        IN  job.Cmd = SubstituteFrom(SchemeOfJob(j).CommandTpl, 1, job.SourceFile,
                                     NameBase(job), job.LogFile)

\* what of C18 the code keeps: the same, for source paths and scheme names
\* that hold no %OUTPUT% and no %LOGFILE% themselves
C18_CmdIsTemplateSubstitutedPlainNames ==
    \A j \in 1..Len(expansion.jobs) :
        LET job == expansion.jobs[j]
        IN  ~HoldsPlaceholder(job.SourceFile) /\ ~HoldsPlaceholder(job.Name)
              => job.Cmd = SubstituteFrom(SchemeOfJob(j).CommandTpl, 1, job.SourceFile,
                                          NameBase(job), job.LogFile)

\* a job whose source path holds %OUTPUT%: the path written into Cmd is not
\* the source path
C18_SourcePathRewritten ==
    \E j \in 1..Len(expansion.jobs) :
        /\ IndexOf(expansion.jobs[j].SourceFile, outputPlaceholder) # 0
        /\ IndexOf(SchemeOfJob(j).CommandTpl, inputPlaceholder) # 0
        /\ IndexOf(expansion.jobs[j].Cmd, expansion.jobs[j].SourceFile) = 0

(***************************************************************************)
(* Properties of the output directory (SpecPlan)                           *)
(***************************************************************************)
\* a job of the latest Run call has been started
SomeJobStarted == \E i \in 1..Len(jobEnv) : jobEnv[i].attempted

\* C19: over all Run calls on a Plan the output directory is created
\* successfully at most once, which the outDirCreated flag tracks; a job of a
\* run is started only after ensureOutDir was called in that run and the
\* directory exists; when the creation fails the flag stays false, Run
\* returns the error and no job of that run is started.
C19_OutDirCreatedOnceBeforeJobs ==
    /\ outDirHist.made <= 1
    /\ plan.outDirCreated <=> (outDirHist.made = 1)
    /\ SomeJobStarted => (outDirHist.run = runs /\ plan.outDirCreated)
    /\ outDirHist.last = "failed" =>
          /\ ~plan.outDirCreated
          /\ ~SomeJobStarted
          /\ runState = "returned"
          /\ runError = ErrOutDir

\* a second Run call, after one whose creation failed, created the directory
\* and started a job
C19_Witness ==
    /\ runs = 2
    /\ outDirHist.tried = 2
    /\ outDirHist.made = 1
    /\ SomeJobStarted

\* a second Run call on a Plan whose directory the first call created: no
\* second creation, and a job is started
C19_SecondRunSkipsCreation ==
    /\ runs = 2
    /\ outDirHist.tried = 1
    /\ outDirHist.last = "none"
    /\ SomeJobStarted

(***************************************************************************)
(* Properties of the frame count validation (SpecVQM)                      *)
(***************************************************************************)
\* a metadata probe failed, or the two files report different frame counts
ProbeFailedOrMisaligned(env) ==
    env.src = <<>> \/ env.comp = <<>> \/ env.src[1] # env.comp[1]

PreflightErrors == {ErrSourceMeta, ErrCompressedMeta, ErrFrameMismatch}

\* C20: when FfmpegVMAF.Measure() is called on an instance not yet measured
\* and a metadata probe fails or the source and the compressed file report
\* different frame counts, it returns a metadata or frame count mismatch
\* error without the external tool having been run, the instance stays
\* un-measured and the result accessor refuses, opening no result file.
C20_MisalignedFailsBeforeTool ==
    ( /\ vqt.impl = "FfmpegVMAF"
      /\ vqtHist.lastOp = "Measure"
      /\ vqtHist.okBefore = 0
      /\ ProbeFailedOrMisaligned(vqtHist.env) ) =>
        /\ vqtHist.lastErr \in PreflightErrors
        /\ vqtHist.toolRuns = vqtHist.toolRunsBefore
        /\ ~vqt.measured
        /\ \A file \in ResultFiles :
              /\ AccessorOutcome(vqt, file).err = ErrGetMetricsDepends
              /\ ~AccessorOutcome(vqt, file).opened

\* Measure() was called on files of 1 and 2 frames, with a tool that would
\* have succeeded, and returned the mismatch error without running it
C20_Witness ==
    /\ vqt.impl = "FfmpegVMAF"
    /\ vqtHist.lastOp = "Measure"
    /\ vqtHist.env = [src |-> <<1>>, comp |-> <<2>>, toolOK |-> TRUE]
    /\ vqtHist.lastErr = ErrFrameMismatch
    /\ vqtHist.toolRuns = 0
    /\ ~vqt.measured

(***************************************************************************)
(* Properties of the limited writer (SpecWriter)                           *)
(***************************************************************************)
\* C21: the bytes passed on to the underlying writer never exceed the limit
\* the LimitedWriter was created with; a Write of b bytes with b at most the
\* remaining capacity (b equal to it included) is accepted in full, and any
\* other Write returns 0 and ErrLimitedWriterOverflow, passes nothing on and
\* leaves the remaining capacity as it was.
C21_NeverOverLimit ==
    /\ lwr.buf <= lwr.limit
    /\ lwr.N = lwr.limit - lwr.buf
    /\ lwr.calls > 0 =>
          IF lwr.last.b <= lwr.last.NBefore
          THEN /\ lwr.last.n = lwr.last.b
               /\ lwr.last.err = ErrNil
               /\ lwr.buf = lwr.last.bufBefore + lwr.last.b
               /\ lwr.N = lwr.last.NBefore - lwr.last.b
          ELSE /\ lwr.last.n = 0
               /\ lwr.last.err = ErrLimitedWriterOverflow
               /\ lwr.buf = lwr.last.bufBefore
               /\ lwr.N = lwr.last.NBefore

\* after an earlier Write, a Write of exactly the remaining capacity was
\* accepted and filled the writer
C21_Witness ==
    /\ lwr.calls >= 2
    /\ lwr.last.b > 0
    /\ lwr.last.b = lwr.last.NBefore
    /\ lwr.last.bufBefore > 0
    /\ lwr.last.err = ErrNil
    /\ lwr.buf = lwr.limit

(***************************************************************************)
(* Properties of the encode stage (SpecApp)                                *)
(***************************************************************************)
FailedOutcomes == {"NewFfmpegVMAF failed", "Measure failed", "GetMetrics failed"}

\* the records whose measurement returned an error
FailedIDs == { id \in DOMAIN app.outcome : app.outcome[id] \in FailedOutcomes }

\* a failed measurement changes no record: every record is as it was stored,
\* or as it was stored with the VQ metrics of its own successful measurement
RecordsKept ==
    \A id \in DOMAIN app.records :
        app.records[id] = IF app.outcome[id] = "ok"
                          THEN WithVQMetrics(app.stored[id]) ELSE app.stored[id]

\* C22 as stated: when the measurement of a stored record fails only that
\* measurement fails: the records stay as they were, the stage goes on to
\* measure the remaining records and only then reports the failure.
C22_FailureIsContained ==
    /\ RecordsKept
    /\ FailedIDs # {} =>
          /\ app.pc # "panicked"
          /\ app.pc = "returned" => (app.todo = {} /\ app.err = ErrVQMFailed)

\* what of C22 the code keeps: the same while no measurement meets a report
\* without frames
C22_FailureIsContainedUnlessNoFrames ==
    /\ RecordsKept
    /\ (FailedIDs # {} /\ \A id \in DOMAIN app.outcome : app.outcome[id] # "panic") =>
          /\ app.pc # "panicked"
          /\ app.pc = "returned" => (app.todo = {} /\ app.err = ErrVQMFailed)

\* a measurement failed, the next one met a report without frames: the
\* stage is gone with a record still to measure and nothing reported
C22_FailureThenCrash ==
    /\ app.pc = "panicked"
    /\ FailedIDs # {}
    /\ app.todo # {}
    /\ app.err = ErrNil

(***************************************************************************)
(* The measured flag (SpecVQM)                                             *)
(***************************************************************************)
\* C23: once Measure() has succeeded the instance stays measured -- no
\* operation resets the flag -- and no later operation on the instance
\* executes the external scoring tool again.
C23_MeasuredIsSticky ==
    /\ vqtHist.okMeasures >= 1 => vqt.measured
    /\ vqtHist.okBefore >= 1 => vqtHist.toolRuns = vqtHist.toolRunsBefore

\* FfmpegVMAF was measured, read, and asked to measure again with an
\* environment in which the tool would run: it is still measured and the
\* tool has run once
C23_Witness ==
    /\ vqt.impl = "FfmpegVMAF"
    /\ vqt.measured
    /\ vqtHist.lastOp = "Measure"
    /\ vqtHist.okBefore = 1
    /\ vqtHist.opens >= 1
    /\ vqtHist.env = [src |-> <<1>>, comp |-> <<1>>, toolOK |-> TRUE]
    /\ vqtHist.toolRuns = 1

(***************************************************************************)
(* Properties of GetMetrics on the reports (SpecReport)                    *)
(***************************************************************************)
\* the outcome of the GetMetrics call of the state
LastGetMetrics == [err |-> codec.lastErr, am |-> codec.am]

\* the outcome of GetMetrics on the report of c in shape s
OutcomeOn(c, s, order) ==
    LET outcome(o) == [err |-> o.err, am |-> o.am]
    IN  outcome(GetMetricsOutcome(ShapedReportData(c, s), order))

\* the shapes that have the frames section of s
SameFrames(s) ==
    { t \in ReportShapes : t.adm = s.adm /\ t.vmaf = s.vmaf /\ t.frames = s.frames }

\* C24 as stated: GetMetrics is a function of the frames section only: a
\* report with the same frames section and another pooled_metrics section,
\* whatever that holds, gives the outcome that the report of the state gave.
C24_OutcomeOfFramesOnly ==
    (codec.lastOp = "GetMetrics" /\ codec.input.bad = 0) =>
        \A t \in SameFrames(codec.shape), order \in MapOrders(codec.input) :
            OutcomeOn(codec.input, t, order) = LastGetMetrics

\* what of C24 the code keeps: pooled sections that decode, left out or as
\* libvmaf writes them, under frames that name every score once
C24_OutcomeOfFramesWhenPooledDecodes ==
    (/\ codec.lastOp = "GetMetrics" /\ codec.input.bad = 0
     /\ codec.input.psnr # "both" /\ codec.input.ssim # "both"
     /\ codec.shape.pooled \in {"libvmaf", "absent"}) =>
        \A t \in SameFrames(codec.shape), order \in MapOrders(codec.input) :
            t.pooled \in {"libvmaf", "absent"} =>
                OutcomeOn(codec.input, t, order) = LastGetMetrics

\* GetMetrics failed on a report whose frames section is the one of a report
\* that it aggregates
C24_PooledSectionFailsGetMetrics ==
    /\ codec.lastOp = "GetMetrics" /\ codec.input.bad = 0
    /\ codec.shape = [LibvmafShape EXCEPT !.pooled = "string"]
    /\ codec.lastErr = ErrParsingJSON
    /\ OutcomeOn(codec.input, LibvmafShape, NoOrder).err = ErrNil

\* the numbers that the metric objects of the report of c give the fields
ScoreOf(naming, c) == IF naming = "both" THEN {ParseFloat(c.num).f, ParseFloat(OtherNumText).f}
                      ELSE {ParseFloat(c.num).f}

\* C25 as stated: decoding the metric objects of a report, per-frame and
\* pooled, ignores every field whose name is not in the alias table whatever
\* its value and without a decode error, and a canonical field that no name
\* of the object matches is zero.
C25_UnknownFieldsIgnored ==
    (/\ codec.lastOp = "GetMetrics" /\ codec.input.bad = 0
     /\ codec.shape.pooled # "string" /\ codec.shape.frames = "array") =>
        /\ codec.lastErr = ErrNil
        /\ Len(report.Frames) = codec.input.nf
        /\ \A i \in 1..Len(report.Frames) :
              /\ report.Frames[i].Metrics.VMAF =
                    IF codec.shape.vmaf THEN Float(FALSE, <<"9","5","5">>, 2) ELSE FloatZero
              /\ report.Frames[i].Metrics.PSNR \in ScoreOf(codec.input.psnr, codec.input)
              /\ report.Frames[i].Metrics.MS_SSIM \in ScoreOf(codec.input.ssim, codec.input)

\* what of C25 the code keeps: the same for unknown fields that hold a
\* number or null, and pooled members that are objects
C25_UnknownNumbersIgnored ==
    (/\ codec.lastOp = "GetMetrics" /\ codec.input.bad = 0
     /\ codec.shape.pooled \in {"libvmaf", "absent"} /\ codec.shape.frames = "array"
     /\ codec.shape.adm \in {"number", "null"}) =>
        /\ codec.lastErr = ErrNil
        /\ Len(report.Frames) = codec.input.nf
        /\ \A i \in 1..Len(report.Frames) :
              /\ report.Frames[i].Metrics.VMAF =
                    IF codec.shape.vmaf THEN Float(FALSE, <<"9","5","5">>, 2) ELSE FloatZero
              /\ report.Frames[i].Metrics.PSNR \in ScoreOf(codec.input.psnr, codec.input)
              /\ report.Frames[i].Metrics.MS_SSIM \in ScoreOf(codec.input.ssim, codec.input)

\* a metric object without "vmaf" was decoded: the field is zero
C25_AbsentFieldIsZero ==
    /\ codec.lastOp = "GetMetrics" /\ codec.lastErr = ErrNil
    /\ ~codec.shape.vmaf
    /\ Len(report.Frames) = 2
    /\ report.Frames[2].Metrics.VMAF = FloatZero
    /\ codec.am.VMAF.Max = FloatZero

\* a metric object whose unknown field holds a string made the decoding fail
C25_UnknownStringFails ==
    /\ codec.lastOp = "GetMetrics" /\ codec.input.bad = 0
    /\ codec.shape = [LibvmafShape EXCEPT !.adm = "string"]
    /\ codec.lastErr = ErrParsingJSON

\* C28 as stated: GetMetrics on a measured instance whose report decodes to
\* zero frames returns normally, with an error or an AggregateMetric; it
\* does not end the process while aggregating the empty vectors.
C28_NoFramesReturns ==
    (codec.lastOp = "GetMetrics" /\ codec.lastErr # ErrParsingJSON
     /\ report.Frames = <<>>) =>
        codec.lastErr # ErrZeroLength

\* every report that decodes to at least one frame is aggregated
C28_FramesAreAggregated ==
    (codec.lastOp = "GetMetrics" /\ codec.lastErr # ErrParsingJSON
     /\ report.Frames # <<>>) =>
        /\ codec.lastErr = ErrNil
        /\ codec.am # NoAggregate

\* the report {} was decoded to no frames and floats.Min did not return
C28_EmptyReportCrash ==
    /\ codec.lastOp = "GetMetrics"
    /\ codec.input.bad = 2
    /\ report = NoReport
    /\ codec.lastErr = ErrZeroLength

\* C29 as stated: decoding is deterministic: the report of the state decodes
\* to the same canonical values however the maps of its objects are walked,
\* also when an object carries both names of a score with different numbers.
C29_DecodingIsDeterministic ==
    (codec.lastOp = "FromFfmpegVMAF" /\ codec.lastErr = ErrNil) =>
        \A order \in MapOrders(codec.input) :
            FromFfmpegVMAFOutcome(codec.dstBefore, ReportData(codec.input), TRUE, order).res
                = report

\* what of C29 the code keeps: determinism of the reports in which no object
\* carries both names of a score
C29_DeterministicWhenNamedOnce ==
    (/\ codec.lastOp = "FromFfmpegVMAF" /\ codec.lastErr = ErrNil
     /\ codec.input.psnr # "both" /\ codec.input.ssim # "both") =>
        \A order \in [f : [psnr : BOOLEAN, ssim : BOOLEAN], p : [psnr : BOOLEAN, ssim : BOOLEAN]] :
            FromFfmpegVMAFOutcome(codec.dstBefore, ReportData(codec.input), TRUE, order).res
                = report

\* one report with "psnr" and "psnr_y" in its objects was decoded to the
\* number of "psnr_y" in a frame and to the number of "psnr" in the pooled
\* section
C29_SameObjectTwoValues ==
    /\ codec.lastOp = "FromFfmpegVMAF" /\ codec.lastErr = ErrNil
    /\ codec.input.psnr = "both" /\ codec.input.num = <<"3","e","1">>
    /\ report.Frames[1].Metrics.PSNR = Float(FALSE, <<"7">>, 1)
    /\ report.PooledMetrics.PSNR.Mean = Float(FALSE, <<"3">>, 2)

(***************************************************************************)
(* The subprocess handle of the RunResults (SpecPlan)                      *)
(***************************************************************************)
\* ExitCode() and Rusage() read s.cmd.ProcessState: they need the handle, and
\* Rusage() and the usage stats built from it need the process state
HasProcessState(r) == r.cmd = "set" /\ r.ProcessState # <<>>

\* C26 as stated: every RunResult that Plan.Run returns carries a subprocess
\* handle and a process state, also for a job whose output file could not be
\* created or whose subprocess could not be started, and building the usage
\* stats of a job does not crash the run.
C26_ResultsCarryProcessState ==
    /\ runState # "panicked"
    /\ runState = "returned" => \A i \in Jobs : HasProcessState(result[i])

\* what of C26 the code keeps: the RunResult of every job whose subprocess
\* was started carries the handle and the process state
C26_StartedJobsCarryProcessState ==
    runState = "returned" =>
        \A i \in Jobs :
            (jobEnv[i].attempted /\ jobEnv[i].createOK /\ jobEnv[i].startOK) =>
                HasProcessState(result[i])

\* Plan.Run returned the RunResult of a job whose output file was not
\* created: it has no handle
C26_ResultWithoutHandle ==
    /\ runState = "returned"
    /\ \E i \in Jobs :
          /\ jobEnv[i].attempted /\ ~jobEnv[i].createOK
          /\ result[i].cmd = "nil"
          /\ result[i].Errors = <<ErrCreate>>

\* the subprocess of a job was not started and building its usage stats
\* ended the run
C26_UsageStatsCrash ==
    /\ runState = "panicked"
    /\ \E i \in Jobs : jobEnv[i].attempted /\ jobEnv[i].createOK /\ ~jobEnv[i].startOK

(***************************************************************************)
(* CompressedFile and the output that Cmd names (SpecExpand)               *)
(***************************************************************************)
\* the positions of the template at which %OUTPUT% stands
OutputOccurrences(tpl) == { i \in 1..Len(tpl) : HasPrefixAt(tpl, outputPlaceholder, i) }

\* the whole literal extension written after the occurrence at i
ExtAfter(tpl, i) ==
    SubSeq(tpl, i + Len(outputPlaceholder),
           ExtRunEnd(tpl, i + Len(outputPlaceholder)) - 1)

\* the extension has at most one part
OnePart(ext) == \A i \in 2..Len(ext) : ext[i] # "."

\* C27 as stated: when the template holds %OUTPUT%, CompressedFile is the
\* path that the rendered Cmd names for the output, the output base followed
\* by the whole literal extension after %OUTPUT%; also for extensions of
\* several parts and for every one of several %OUTPUT% occurrences.
C27_CompressedFileIsCmdOutput ==
    \A j \in 1..Len(expansion.jobs) :
        \A i \in OutputOccurrences(SchemeOfJob(j).CommandTpl) :
            /\ expansion.jobs[j].CompressedFile =
                  NameBase(expansion.jobs[j]) \o ExtAfter(SchemeOfJob(j).CommandTpl, i)
            /\ IndexOf(expansion.jobs[j].Cmd, expansion.jobs[j].CompressedFile) # 0

\* what of C27 the code keeps: CompressedFile is the base followed by the
\* extension after the first %OUTPUT% when that extension has one part or
\* none, and Cmd names it when neither the source path nor the scheme name
\* holds a placeholder
C27_CompressedFileIsFirstOnePartOutput ==
    \A j \in 1..Len(expansion.jobs) :
        LET tpl == SchemeOfJob(j).CommandTpl
            job == expansion.jobs[j]
        IN  (IndexOf(tpl, outputPlaceholder) # 0
             /\ OnePart(ExtAfter(tpl, IndexOf(tpl, outputPlaceholder)))) =>
                /\ job.CompressedFile =
                      NameBase(job) \o ExtAfter(tpl, IndexOf(tpl, outputPlaceholder))
                /\ (~HoldsPlaceholder(job.SourceFile) /\ ~HoldsPlaceholder(job.Name))
                      => IndexOf(job.Cmd, job.CompressedFile) # 0

\* a job of a template with two %OUTPUT% occurrences, the second with an
\* extension: Cmd names base.k, CompressedFile is the base
C27_SecondOccurrenceDropped ==
    \E j \in 1..Len(expansion.jobs) :
        LET tpl == SchemeOfJob(j).CommandTpl
            job == expansion.jobs[j]
        IN  /\ \E i \in OutputOccurrences(tpl) : ExtAfter(tpl, i) = <<".","k">>
            /\ IndexOf(job.Cmd, NameBase(job) \o <<".","k">>) # 0
            /\ job.CompressedFile = NameBase(job)

(***************************************************************************)
(* Concurrent Deletes of one id (SpecDelete)                               *)
(***************************************************************************)
\* the outcomes of the Delete calls of id that have returned
DeletesOf(id) == { e \in hist.delLog : e.id = id }

\* C30: when callers, concurrently or not, Delete an id that is live as they
\* call and all have returned, exactly one Delete of the id has succeeded and
\* every other one has returned the not-found error; the id is not live and
\* the records of the other ids are the records that were inserted.
C30_ConcurrentDeletes ==
    Quiescent =>
        /\ hist.nDel = Cardinality(hist.deleted)
        /\ \A id \in IdArgs("Delete") :
              (\E e \in DeletesOf(id) : e.live) =>
                  /\ id \in hist.deleted
                  /\ \A e \in DeletesOf(id) : e.err \in {ErrNil, ErrRecordNotFound}
                  /\ id \notin Live(store)
                  /\ \A k \in 1..Len(hist.insLog) :
                        hist.insLog[k].id \notin hist.deleted =>
                            /\ hist.insLog[k].id \in Live(store)
                            /\ store.records[hist.insLog[k].id] = hist.insLog[k].rec

\* two callers were inside Delete of id 0 at the same time while it was
\* live and both have returned: one has succeeded, the other got the
\* not-found error, and the record of id 1 is in the Store
C30_Witness ==
    /\ Quiescent
    /\ hist.delConc
    /\ hist.calls = 2
    /\ hist.nDel = 1
    /\ hist.delLog = { [id |-> 0, err |-> ErrNil, live |-> TRUE],
                       [id |-> 0, err |-> ErrRecordNotFound, live |-> TRUE] }
    /\ Live(store) = {1}

====
